---- MODULE Spec2Model ----
(***************************************************************************)
(* A model of the LBW analysis client: the seeded scenario synthesizer,    *)
(* the content fingerprinter, the streaming analysis client and the        *)
(* reconciliation of the in-memory log with the durable store              *)
(* (src/src/services/settingsService.ts, analysisDbService.ts).            *)
(*                                                                         *)
(* Numbers.  TLC integers are 32 bits wide, JavaScript numbers are IEEE    *)
(* doubles.  A 32-bit unsigned value is a pair <<hi, lo>> of 16-bit limbs. *)
(* A draw of the generator is kept as its integer state s, the value being *)
(* s / 0x7fffffff.  A number computed from a draw is kept as the record    *)
(* [a, b, s, den], standing for (a + b * s / 0x7fffffff) / den.            *)
(***************************************************************************)
EXTENDS Integers, Sequences, FiniteSets, TLC

VARIABLES
  now,        \* the clock: what Date.now() returns
  synthArgs,  \* the arguments of the last call of the synthesizer, if any
  synthOut,   \* the report it returned
  synthRef,   \* an earlier call kept for comparison: its arguments and report
  parseOut,   \* the report parseAnalysisResult returned last, if any
  stream,     \* the response body: its frames, and what follows the last one
  streamPos,  \* the number of them the reader has delivered
  streamCuts, \* where reads have ended: inside a frame, inside a delimiter
  reader,     \* processEvents: its buffer, the callbacks made, the promise
  file,       \* the file handed to the fingerprinter
  hashOut,    \* what generateFileHash did with it: seed, progress calls, warning
  useMockApi, \* USE_MOCK_API, fixed when the application is built
  session,    \* the signed-in user, if any
  storedAnalyses, \* the in-memory log, newest first
  rows,       \* the table lbw_analyses, newest first
  call,       \* the call of a user-facing operation that has settled, until the
              \* caller takes its outcome
  health,     \* the calls of checkBackendHealth in flight, oldest first
  healthOut,  \* how the last call of checkBackendHealth ended, if one has
  backendStatus, \* the state of useBackendStatus
  retryTimer, \* the timer of the auto-retry effect of useBackendStatus is set
  lcg,        \* a SeededRandom on its own: its seed, this.seed, the calls made
  saves,      \* the calls of saveAnalysisToDb in flight, each at its await
  flights     \* the calls of analyzeVideo in flight, each at its await

synthVars == <<synthArgs, synthOut, synthRef, parseOut>>
streamVars == <<stream, streamPos, streamCuts, reader>>
hashVars == <<file, hashOut>>
storeVars == <<useMockApi, session, storedAnalyses, rows, call>>
healthVars == <<health, healthOut, backendStatus, retryTimer>>
rngVars == <<lcg>>
concVars == <<saves, flights>>
vars == <<now, synthVars, streamVars, hashVars, storeVars, healthVars, rngVars, concVars>>

\* ------------------------------------------------------------------------
\* Arithmetic on doubles that hold integers
\* ------------------------------------------------------------------------

\* 0x7fffffff: the mask of next() and the divisor of a draw
Modulus == 2147483647
\* the multiplier and the increment of the linear congruential generator
LcgMultiplier == 1103515245
LcgIncrement == 12345

Limb == 2^16

U32(n) == <<n \div Limb, n % Limb>>

\* the number of binary digits of n, for 0 <= n < 2^16 (0 for 0)
BitLen2(n) == IF n >= 2 THEN 2 ELSE n
BitLen4(n) == IF n >= 4 THEN 2 + BitLen2(n \div 4) ELSE BitLen2(n)
BitLen8(n) == IF n >= 16 THEN 4 + BitLen4(n \div 16) ELSE BitLen4(n)
BitLen(n) == IF n >= 256 THEN 8 + BitLen8(n \div 256) ELSE BitLen8(n)

\* four limbs (least significant first), the carries propagated upwards
Carry(d) ==
  LET t2 == d[2] + (d[1] \div Limb)
      t3 == d[3] + (t2 \div Limb)
  IN  <<d[1] % Limb, t2 % Limb, t3 % Limb, d[4] + (t3 \div Limb)>>

\* the exact product of the 32-bit value s = <<hi, lo>> and the 31-bit
\* integer m, as four limbs
MulLimbs(s, m) ==
  LET mh  == m \div Limb
      ml  == m % Limb
      p0  == s[2] * ml
      p1a == s[2] * mh
      p1b == s[1] * ml
      p2  == s[1] * mh
      t1  == (p1a % Limb) + (p1b % Limb) + (p0 \div Limb)
      t2  == p2 + (p1a \div Limb) + (p1b \div Limb) + (t1 \div Limb)
  IN  <<p0 % Limb, t1 % Limb, t2 % Limb, t2 \div Limb>>

LimbsBitLen(d) ==
  IF d[4] > 0 THEN 48 + BitLen(d[4])
  ELSE IF d[3] > 0 THEN 32 + BitLen(d[3])
  ELSE IF d[2] > 0 THEN 16 + BitLen(d[2])
  ELSE BitLen(d[1])

\* the IEEE double nearest to the integer d (53 significant bits, ties to
\* even); the bits dropped lie in the lowest limb because d < 2^63
RoundDouble(d) ==
  LET e    == LimbsBitLen(d) - 53
      unit == 2^e
      r    == d[1] % unit
      odd  == (d[1] \div unit) % 2 = 1
      up   == (2 * r > unit) \/ (2 * r = unit /\ odd)
  IN  IF e <= 0 THEN d
      ELSE Carry(<<d[1] - r + (IF up THEN unit ELSE 0), d[2], d[3], d[4]>>)

\* floor(k * s / Modulus) and the remainder, for 0 <= k < 2^15 and
\* 0 <= s <= Modulus, without leaving 32 bits
ScaleDivMod(k, s) ==
  LET u    == k * (s \div Limb)
      v    == k * (s % Limb)
      mid  == (u % 2^15) + (v \div Limb)
      hi   == (u \div 2^15) + (mid \div 2^15)
      lo   == (mid % 2^15) * Limb + (v % Limb)
  IN  \* k * s = hi * 2^31 + lo = hi * Modulus + (hi + lo)
      IF lo >= Modulus - hi
      THEN [q |-> hi + 1, r |-> lo - (Modulus - hi)]
      ELSE [q |-> hi,     r |-> hi + lo]

\* k * s / Modulus > c  and  k * s / Modulus < c, for an integer c
ScaledGreater(k, s, c) == LET x == ScaleDivMod(k, s) IN x.q > c \/ (x.q = c /\ x.r > 0)
ScaledLess(k, s, c) == ScaleDivMod(k, s).q < c

\* a number (a + b * s / Modulus) / den, where s is the state of a draw
Num(a, b, s, den) == [a |-> a, b |-> b, s |-> s, den |-> den]
Const(n) == Num(n, 0, 0, 1)

\* an optional value: absent (undefined, null) or present
None == <<>>
Some(x) == <<x>>

\* const x = e; followed by the statements F(x): e is evaluated once, before
\* F, whatever the number of uses of x
Bind(e, F(_)) == CHOOSE v \in {F(x) : x \in {e}} : TRUE

\* x > p / q and x < p / q, for a number x with a, b >= 0
NumGreaterThan(x, p, q) == ScaledGreater(q * x.b, x.s, p * x.den - q * x.a)
NumLessThan(x, p, q) == ScaledLess(q * x.b, x.s, p * x.den - q * x.a)

\* Math.abs of a number whose two coefficients have the same sign
NumAbs(x) == IF x.a < 0 \/ x.b < 0 THEN [x EXCEPT !.a = -x.a, !.b = -x.b] ELSE x

\* ------------------------------------------------------------------------
\* SeededRandom
\* ------------------------------------------------------------------------

\* (this.seed * 1103515245 + 12345) & 0x7fffffff, the product and the sum
\* each rounded to a double before the mask takes the low 31 bits
SeededRandom_next(seed) ==
  Bind(RoundDouble(MulLimbs(seed, LcgMultiplier)), LAMBDA prod :
  Bind(RoundDouble(Carry(<<prod[1] + LcgIncrement, prod[2], prod[3], prod[4]>>)), LAMBDA sum :
    <<sum[2] % 2^15, sum[1]>>))

\* the states this.seed goes through in n calls of next(), in order
RECURSIVE Stream(_, _)
Stream(seed, n) ==
  IF n = 0 THEN <<>>
  ELSE IF n = 1 THEN <<SeededRandom_next(seed)>>
  ELSE Bind(Stream(seed, n \div 2), LAMBDA half :
         half \o Stream(half[Len(half)], n - n \div 2))

\* no report makes more calls of next() than this
DrawsKept == 64

\* new SeededRandom(seed).  The generator is kept as the states it will go
\* through and the number n of calls of next() made so far.
SeededRandom(seed) == [stream |-> Stream(seed, DrawsKept), n |-> 0]

\* the generator after a call of next()
Next(rng) == [rng EXCEPT !.n = @ + 1]

\* the numerator of the value the last call of next() returned:
\* this.seed / 0x7fffffff
Draw(rng) == LET seed == rng.stream[rng.n] IN seed[1] * Limb + seed[2]

\* rng.next() > p / q  (no draw lies within a rounding error of a threshold:
\* no threshold times 0x7fffffff is an integer)
DrawGreater(rng, p, q) == ScaledGreater(q, Draw(rng), p)

\* Math.floor(rng.next() * n)
DrawFloor(rng, n) == ScaleDivMod(n, Draw(rng)).q

\* ------------------------------------------------------------------------
\* Mock data generators.  Each takes the generator's state, and returns its
\* value together with the state it leaves.
\* ------------------------------------------------------------------------

\* in tenths
SURFACE_BOUNCE ==
  [concrete |-> 13, turf |-> 10, matting |-> 9, mud |-> 6]

BALL_SPEED_RANGES ==
  [tennis  |-> [pace |-> <<100, 120>>, spin |-> <<60, 80>>],
   tape    |-> [pace |-> <<110, 130>>, spin |-> <<65, 85>>],
   leather |-> [pace |-> <<125, 155>>, spin |-> <<75, 100>>]]

\* SURFACE_BOUNCE[settings.pitch_surface] ?? 1.0, in tenths
BounceFactor(settings) ==
  IF settings.pitch_surface \in DOMAIN SURFACE_BOUNCE
  THEN SURFACE_BOUNCE[settings.pitch_surface] ELSE 10

\* BALL_SPEED_RANGES[settings.ball_type] ?? BALL_SPEED_RANGES.tennis
SpeedRange(settings) ==
  IF settings.ball_type \in DOMAIN BALL_SPEED_RANGES
  THEN BALL_SPEED_RANGES[settings.ball_type] ELSE BALL_SPEED_RANGES.tennis

\* an array read a[i] (0-based), undefined past the end
ArrayAt(a, i) == IF i + 1 \in DOMAIN a THEN a[i + 1] ELSE "undefined"

generateBallMetrics(rng, settings) ==
  LET ballTypes == <<"inswing", "outswing", "seam", "offspin", "legspin", "straight">>
      r1 == Next(rng)
      ballType == ArrayAt(ballTypes, DrawFloor(r1, Len(ballTypes)))
      isSpin == ballType = "offspin" \/ ballType = "legspin"
      speedRange == SpeedRange(settings)
      range == IF isSpin THEN speedRange.spin ELSE speedRange.pace
      minSpeed == range[1]
      maxSpeed == range[2]
      r2 == Next(r1)
      r3 == Next(r2)
      r4 == Next(r3)
      r5 == IF isSpin THEN Next(r4) ELSE r4
      r6 == Next(r5)
      r7 == Next(r6)
  IN  [val |->
         [speed          |-> Num(minSpeed, maxSpeed - minSpeed, Draw(r2), 1),
          releaseSpeed   |-> Num(minSpeed + 10, maxSpeed - minSpeed, Draw(r3), 1),
          impactSpeed    |-> Num(minSpeed - 5, maxSpeed - minSpeed - 5, Draw(r4), 1),
          spinRate       |-> IF isSpin THEN Some(Num(1500, 1500, Draw(r5), 1)) ELSE None,
          swingDeviation |-> Num(2, 8, Draw(r6), 1),
          ballType       |-> ballType,
          angleOfEntry   |-> Num(5, 15, Draw(r7), 1)],
       rng |-> r7]

generatePitchAnalysis(pitchedInLine, rng, settings) ==
  LET r1 == IF pitchedInLine THEN Next(rng) ELSE rng
      zone == IF pitchedInLine
              THEN (IF DrawGreater(r1, 5, 10) THEN "inline" ELSE "outside_off")
              ELSE "outside_leg"
      bounceFactor == BounceFactor(settings)
      r2 == Next(r1)
      r3 == Next(r2)
      r4 == Next(r3)
  IN  [val |->
         [zone |-> zone,
          distanceFromLegStump |->
            IF zone = "outside_leg" THEN Num(5, 30, Draw(r2), 1) ELSE Num(-10, -40, Draw(r2), 1),
          distanceFromOffStump |->
            IF zone = "outside_off" THEN Num(5, 20, Draw(r3), 1) ELSE Num(-15, -50, Draw(r3), 1),
          bounceAngle |-> Num(12 * bounceFactor, 10 * bounceFactor, Draw(r4), 10)],
       rng |-> r4]

generateImpactAnalysis(impactInLine, rng, settings) ==
  LET r1 == IF impactInLine THEN rng ELSE Next(rng)
      zone == IF impactInLine THEN "inline"
              ELSE (IF DrawGreater(r1, 5, 10) THEN "outside_off" ELSE "outside_leg")
      r2 == Next(r1)
      height == Num(15, 50, Draw(r2), 1)
      \* settings.stump_height * 2.54
      stumpHeight == Num(settings.stump_height * 254, 0, 0, 100)
      r3 == Next(r2)
      distFromLeg == IF zone = "outside_leg" THEN Num(5, 20, Draw(r3), 1)
                     ELSE Num(-5, -30, Draw(r3), 1)
      near == NumLessThan(NumAbs(distFromLeg), 5, 1)
      \* the draw of the right operand is made only when it is evaluated
      r4 == IF ~near /\ zone = "inline" THEN Next(r3) ELSE r3
      isMarginally == near \/ (zone = "inline" /\ DrawGreater(r4, 7, 10))
      r5 == Next(r4)
  IN  [val |->
         [zone |-> zone,
          height |-> height,
          stumpHeight |-> stumpHeight,
          isAboveStumps |-> NumGreaterThan(height, stumpHeight.a, stumpHeight.den),
          distanceFromLegStump |-> distFromLeg,
          distanceFromOffStump |->
            IF zone = "outside_off" THEN Num(5, 15, Draw(r5), 1) ELSE Num(-20, -40, Draw(r5), 1),
          umpiresCall |-> IF isMarginally THEN "UMPIRES_CALL" ELSE "CLEAR"],
       rng |-> r5]

generateWicketPrediction(wouldHit, rng) ==
  LET stumps == <<"leg", "middle", "off", "missing_leg", "missing_off", "over">>
      r1 == Next(rng)
      stumpHit == IF wouldHit THEN ArrayAt(stumps, DrawFloor(r1, 3))
                  ELSE ArrayAt(stumps, 3 + DrawFloor(r1, 3))
      r2 == Next(r1)
      hitPercentage == IF wouldHit THEN Num(25, 75, Draw(r2), 1) ELSE Num(0, 25, Draw(r2), 1)
      isUmpiresCall == ~NumLessThan(hitPercentage, 25, 1) /\ NumLessThan(hitPercentage, 50, 1)
      r3 == Next(r2)
  IN  [val |->
         [wouldHit |-> wouldHit,
          hitPercentage |-> hitPercentage,
          stumpHit |-> stumpHit,
          umpiresCall |-> IF isUmpiresCall THEN "UMPIRES_CALL" ELSE "CLEAR",
          marginOfError |-> Num(1, 3, Draw(r3), 1)],
       rng |-> r3]


\* The point i of a part of the trajectory, s being the draw of its y.
\* x is kept with its two draws: (a + b1 * s1 / Modulus + b2 * s2 / Modulus) / den;
\* the height of the last part keeps the sine it is computed from:
\* (a + b * sin(fifths * PI / 5)) / den.  In c: s1 and s2, the draws of
\* bounceX = 120 + s1 / Modulus * 60 and impactX = 220 + s2 / Modulus * 40,
\* L = settings.pitch_length (lengthScale = L / 22) and bounceFactor.
TrajectoryPoint(part, i, s, c) ==
  CASE part = "release" ->   \* t = i / 10
        [x |-> [a |-> 120 * i * c.L, b1 |-> 60 * i * c.L, s1 |-> c.s1, b2 |-> 0, s2 |-> 0,
                den |-> 220],
         y |-> Num(45, 10, s, 1),
         z |-> [a |-> 20000 - 1800 * i + 20 * i * i, b |-> 0, fifths |-> 0, den |-> 100]]
    [] part = "bounce" ->    \* t = i / 10
        [x |-> [a |-> ((10 - i) * 120 + i * 220) * c.L, b1 |-> (10 - i) * 60 * c.L,
                s1 |-> c.s1, b2 |-> i * 40 * c.L, s2 |-> c.s2, den |-> 220],
         y |-> Num(45, 10, s, 1),
         z |-> [a |-> (2000 + 400 * i - 20 * i * i) * c.bounceFactor, b |-> 0, fifths |-> 0,
                den |-> 1000]]
    [] part = "impact" ->    \* t = i / 5
        [x |-> [a |-> ((5 - i) * 220 + i * 300) * c.L, b1 |-> 0, s1 |-> 0,
                b2 |-> (5 - i) * 40 * c.L, s2 |-> c.s2, den |-> 110],
         y |-> Num(85, 30, s, 2),
         z |-> [a |-> 40 * c.bounceFactor, b |-> 20 * c.bounceFactor, fifths |-> i,
                den |-> 10]]

\* one loop of generateTrajectory: the points i .. to of a part pushed, in order
RECURSIVE Segment(_, _, _, _, _, _)
Segment_inclusive(part, c, rng, i, to, acc) ==
  IF i > to + 1 THEN [val |-> acc, rng |-> rng]
  ELSE Bind(Next(rng), LAMBDA r :
       Bind(Append(acc, TrajectoryPoint(part, i, Draw(r), c)), LAMBDA points :
         Segment(part, c, r, i + 1, to, points)))
Segment(part, c, rng, i, to, acc) ==
  IF i > to THEN [val |-> acc, rng |-> rng]
  ELSE Bind(Next(rng), LAMBDA r :
       Bind(Append(acc, TrajectoryPoint(part, i, Draw(r), c)), LAMBDA points :
         Segment(part, c, r, i + 1, to, points)))

generateTrajectory(rng, settings) ==
  LET r1 == Next(rng)
      r2 == Next(r1)
      c == [s1 |-> Draw(r1), s2 |-> Draw(r2), L |-> settings.pitch_length,
            bounceFactor |-> BounceFactor(settings)]
  IN  Bind(Segment("release", c, r2, 0, 10, <<>>), LAMBDA seg1 :
      Bind(Segment("bounce", c, seg1.rng, 1, 10, seg1.val), LAMBDA seg2 :
        Segment("impact", c, seg2.rng, 1, 5, seg2.val)))

createAnalysisSteps ==
  LET ids == <<"preprocessing", "ball-detection", "leg-detection", "impact-detection",
               "bounce-detection", "trajectory", "wicket-prediction">>
  IN  [i \in DOMAIN ids |-> [id |-> ids[i], status |-> "pending", data |-> None]]

\* createAnalysisSteps().map(step => ({ ...step, status: 'completed' }))
CompletedSteps == [i \in DOMAIN createAnalysisSteps |->
                     [createAnalysisSteps[i] EXCEPT !.status = "completed"]]

generateMockKeyFrames(rng) ==
  LET r1 == Next(rng)
      r2 == Next(r1)
      r3 == Next(r2)
      r4 == Next(r3)
      r5 == Next(r4)
      r6 == Next(r5)
      r7 == Next(r6)
      r8 == Next(r7)
  IN  [val |->
         <<[type |-> "release", frameNumber |-> 5 + DrawFloor(r1, 10),
            timestamp |-> Num(2, 3, Draw(r2), 10)],
           [type |-> "bounce", frameNumber |-> 25 + DrawFloor(r3, 15),
            timestamp |-> Num(8, 4, Draw(r4), 10)],
           [type |-> "impact", frameNumber |-> 45 + DrawFloor(r5, 20),
            timestamp |-> Num(15, 5, Draw(r6), 10)],
           [type |-> "wicket", frameNumber |-> 60 + DrawFloor(r7, 25),
            timestamp |-> Num(20, 6, Draw(r8), 10)]>>,
       rng |-> r8]

\* videoName.replace(/\s/g, '_'), a name being a sequence of characters
ReplaceSpaces(name) == [i \in DOMAIN name |-> IF name[i] = " " THEN "_" ELSE name[i]]

\* `analysis-${seed}-${videoName.replace(/\s/g, '_')}`
AnalysisId(seed, videoName) == <<"analysis", seed, ReplaceSpaces(videoName)>>

\* if (decision === 'OUT') { criteria.pitchedInLine = true; ... }
ForceCriteria_unforced(decision, drawn) == drawn
ForceCriteria(decision, drawn) ==
  IF decision = "OUT"
  THEN [pitchedInLine |-> TRUE, impactInLine |-> TRUE,
        legBeforeBat |-> TRUE, wouldHitWickets |-> TRUE]
  ELSE drawn

\* the top-level flag of the report
IsUmpiresCall_both(impactAnalysis, wicketPrediction) ==
  impactAnalysis.umpiresCall = "UMPIRES_CALL"
  /\ wicketPrediction.umpiresCall = "UMPIRES_CALL"
IsUmpiresCall(impactAnalysis, wicketPrediction) ==
  impactAnalysis.umpiresCall = "UMPIRES_CALL"
  \/ wicketPrediction.umpiresCall = "UMPIRES_CALL"

\* rng.next() > 0.45 ? 'OUT' : 'NOT_OUT', rng being the generator once the
\* draw is made
DecisionOf_inverted(rng) == IF DrawGreater(rng, 45, 100) THEN "NOT_OUT" ELSE "OUT"
DecisionOf(rng) == IF DrawGreater(rng, 45, 100) THEN "OUT" ELSE "NOT_OUT"

\* date is what new Date() returns when the call is made: a Date is its
\* time value, present unless it is an Invalid Date
generateAnalysisResult(videoName, seed, settings, date) ==
  Bind(SeededRandom(seed), LAMBDA rng :
  LET r1 == Next(rng)
      decision == DecisionOf(r1)
      r2 == Next(r1)
      confidence == Num(65, 30, Draw(r2), 1)
      r3 == Next(r2)
      r4 == Next(r3)
      r5 == Next(r4)
      r6 == Next(r5)
      drawn == [pitchedInLine   |-> DrawGreater(r3, 3, 10),
                impactInLine    |-> DrawGreater(r4, 35, 100),
                legBeforeBat    |-> DrawGreater(r5, 25, 100),
                wouldHitWickets |-> IF decision = "OUT" THEN DrawGreater(r6, 2, 10)
                                    ELSE DrawGreater(r6, 7, 10)]
  IN
  Bind(ForceCriteria(decision, drawn), LAMBDA criteria :
  Bind(generateBallMetrics(r6, settings), LAMBDA ballMetrics :
  Bind(generatePitchAnalysis(criteria.pitchedInLine, ballMetrics.rng, settings),
       LAMBDA pitchAnalysis :
  Bind(generateImpactAnalysis(criteria.impactInLine, pitchAnalysis.rng, settings),
       LAMBDA impactAnalysis :
  Bind(generateWicketPrediction(criteria.wouldHitWickets, impactAnalysis.rng),
       LAMBDA wicketPrediction :
  Bind(generateTrajectory(wicketPrediction.rng, settings), LAMBDA trajectory :
  LET isUmpiresCall == IsUmpiresCall(impactAnalysis.val, wicketPrediction.val)
      r7 == Next(trajectory.rng)
      r8 == Next(r7)
      r9 == IF criteria.wouldHitWickets THEN Next(r8) ELSE r8
  IN  [id |-> AnalysisId(seed, videoName),
       videoId |-> <<"video", seed>>,
       videoName |-> videoName,
       videoThumbnail |-> "/placeholder.svg",
       decision |-> decision,
       confidence |-> confidence,
       criteria |-> criteria,
       steps |-> CompletedSteps,
       trajectory |-> trajectory.val,
       impactPoint |-> [x |-> Num(230, 20, Draw(r7), 1), y |-> Const(50)],
       bouncePoint |-> [x |-> Num(130, 40, Draw(r8), 1), y |-> Const(50)],
       predictedWicketHit |->
         IF criteria.wouldHitWickets
         THEN Some([x |-> Const(300), y |-> Num(48, 4, Draw(r9), 1)]) ELSE None,
       createdAt |-> date,
       ballMetrics |-> Some(ballMetrics.val),
       pitchAnalysis |-> Some(pitchAnalysis.val),
       impactAnalysis |-> Some(impactAnalysis.val),
       wicketPrediction |-> Some(wicketPrediction.val),
       isUmpiresCall |-> isUmpiresCall,
       keyFrames |-> Some(generateMockKeyFrames(r9).val)])))))))

\* MOCK_DEFAULTS, and DEFAULTS of the settings service: the fields the
\* synthesizer reads
MOCK_DEFAULTS ==
  [pitch_length |-> 22, pitch_surface |-> "concrete", ball_type |-> "tennis",
   stump_height |-> 28]



\* ------------------------------------------------------------------------
\* JSON values, and the conversions of JavaScript applied to them.  A string
\* is a sequence of characters; numbers are integers.
\* ------------------------------------------------------------------------

JUndefined == <<"undefined">>
JNull == <<"null">>
JNaN == <<"NaN">>
JNum(n) == <<"number", n>>
JStr(chars) == <<"string", chars>>
JBool(b) == <<"boolean", b>>
JObj(fields) == <<"object", fields>>
JArr(items) == <<"array", items>>

\* obj.key and obj?.key: undefined unless obj is an object that has the key
Field(v, key) ==
  IF v[1] = "object" THEN (IF key \in DOMAIN v[2] THEN v[2][key] ELSE JUndefined)
  ELSE JUndefined

\* Boolean(v)
Truthy(v) ==
  CASE v[1] \in {"undefined", "null", "NaN"} -> FALSE
    [] v[1] = "number" -> v[2] # 0
    [] v[1] = "string" -> v[2] # <<>>
    [] v[1] = "boolean" -> v[2]
    [] OTHER -> TRUE

\* a || b  and  a ?? b
OrElse(a, b) == IF Truthy(a) THEN a ELSE b
Nullish(a, b) == IF a[1] \in {"undefined", "null"} THEN b ELSE a

Digits == <<"0", "1", "2", "3", "4", "5", "6", "7", "8", "9">>
IsDigits(chars) == chars # <<>> /\ \A i \in DOMAIN chars : \E d \in DOMAIN Digits : Digits[d] = chars[i]
DigitOf(ch) == (CHOOSE d \in DOMAIN Digits : Digits[d] = ch) - 1

RECURSIVE Decimal(_, _)
Decimal(chars, acc) ==
  IF chars = <<>> THEN acc ELSE Decimal(Tail(chars), 10 * acc + DigitOf(Head(chars)))

RECURSIVE DecimalString(_)
DecimalString(n) ==
  IF n < 0 THEN <<"-">> \o DecimalString(-n)
  ELSE IF n < 10 THEN <<Digits[n + 1]>>
  ELSE Append(DecimalString(n \div 10), Digits[(n % 10) + 1])

\* Number(v)
ToNumber(v) ==
  CASE v[1] = "number" -> v
    [] v[1] = "null" -> JNum(0)
    [] v[1] = "boolean" -> JNum(IF v[2] THEN 1 ELSE 0)
    [] v[1] = "string" ->
         IF v[2] = <<>> THEN JNum(0)
         ELSE IF IsDigits(v[2]) THEN JNum(Decimal(v[2], 0))
         ELSE IF Head(v[2]) = "-" /\ IsDigits(Tail(v[2])) THEN JNum(-Decimal(Tail(v[2]), 0))
         ELSE JNaN
    [] OTHER -> JNaN

\* String(v), for the values an id, a name or a date can be
StringOf(v) ==
  CASE v[1] = "string" -> v[2]
    [] v[1] = "number" -> DecimalString(v[2])
    [] OTHER -> <<v[1]>>

\* date.toISOString() and new Date(string): the ISO form of the instant t is
\* kept as "T" followed by the digits of t; a string of digits alone (the
\* String of Date.now()) is no date format
ToISOString(t) == <<"T">> \o DecimalString(t)
DateOfString(chars) ==
  IF Len(chars) >= 2 /\ Head(chars) = "T" /\ IsDigits(Tail(chars))
  THEN Some(Decimal(Tail(chars), 0)) ELSE None

\* a payload value read as { x: number; y: number }: the payloads' points
\* have numbers for x and y
PointOf(v) == [x |-> Const(Field(v, "x")[2]), y |-> Const(Field(v, "y")[2])]

\* a || b read as an optional object (BallMetrics | undefined and the like)
OptionalObject(v) == IF v[1] = "object" THEN Some(v[2]) ELSE None

\* data is the payload, dateNow what Date.now() returns
parseAnalysisResult(data, dateNow) ==
  LET result == data
      Either(snake, camel) == OrElse(Field(result, snake), Field(result, camel))
      criteria == Field(result, "criteria")
      Criterion(snake, camel) == Truthy(Nullish(Field(criteria, snake), Field(criteria, camel)))
      steps == Field(result, "steps")
      trajectory == Field(result, "trajectory")
      impactPoint == Either("impact_point", "impactPoint")
      bouncePoint == Either("bounce_point", "bouncePoint")
      wicketHit == Either("predicted_wicket_hit", "predictedWicketHit")
      created == OrElse(Either("created_at", "createdAt"), JNum(dateNow))
      thumbnail == Either("video_thumbnail", "videoThumbnail")
      decision == Field(result, "decision")
  IN  [id |-> StringOf(OrElse(Field(result, "id"), JStr(<<>>))),
       videoId |-> StringOf(OrElse(Either("video_id", "videoId"), JStr(<<>>))),
       videoName |-> StringOf(OrElse(Either("video_name", "videoName"), JStr(<<>>))),
       videoThumbnail |-> IF Truthy(thumbnail) THEN StringOf(thumbnail) ELSE "/placeholder.svg",
       \* a decision is a string of one token
       decision |-> IF Truthy(decision) THEN decision[2][1] ELSE "NOT_OUT",
       \* Number(result.confidence) || 0
       confidence |-> Const(OrElse(ToNumber(Field(result, "confidence")), JNum(0))[2]),
       criteria |-> [pitchedInLine   |-> Criterion("pitched_in_line", "pitchedInLine"),
                     impactInLine    |-> Criterion("impact_in_line", "impactInLine"),
                     legBeforeBat    |-> Criterion("leg_before_bat", "legBeforeBat"),
                     wouldHitWickets |-> Criterion("would_hit_wickets", "wouldHitWickets")],
       steps |-> IF Truthy(steps) THEN steps[2] ELSE CompletedSteps,
       trajectory |-> IF Truthy(trajectory)
                      THEN [i \in DOMAIN trajectory[2] |-> trajectory[2][i]] ELSE <<>>,
       impactPoint |-> IF Truthy(impactPoint) THEN PointOf(impactPoint)
                       ELSE [x |-> Const(0), y |-> Const(0)],
       bouncePoint |-> IF Truthy(bouncePoint) THEN PointOf(bouncePoint)
                       ELSE [x |-> Const(0), y |-> Const(0)],
       predictedWicketHit |-> IF Truthy(wicketHit) THEN Some(PointOf(wicketHit)) ELSE None,
       createdAt |-> DateOfString(StringOf(created)),
       ballMetrics |-> OptionalObject(Either("ball_metrics", "ballMetrics")),
       pitchAnalysis |-> OptionalObject(Either("pitch_analysis", "pitchAnalysis")),
       impactAnalysis |-> OptionalObject(Either("impact_analysis", "impactAnalysis")),
       wicketPrediction |-> OptionalObject(Either("wicket_prediction", "wicketPrediction")),
       isUmpiresCall |->
         Truthy(Nullish(Field(result, "is_umpires_call"), Field(result, "isUmpiresCall")))]

\* MOCK_DEFAULTS, and DEFAULTS of the settings service: the fields the
\* synthesizer reads
DEFAULTS == MOCK_DEFAULTS

\* ------------------------------------------------------------------------
\* The synthesizer and the parser on their own: calls with arguments drawn
\* from bounded sets
\* ------------------------------------------------------------------------

\* the seeds of the built-in reports (storedAnalyses), and two more
Seeds == {U32(n) : n \in {12345, 67890, 11111, 22222, 33333, 8, 26}}

OtherSettings ==
  [pitch_length |-> 20, pitch_surface |-> "mud", ball_type |-> "leather", stump_height |-> 27]

\* the clock advances by a millisecond at a time, MaxTicks times at most
MaxTicks == 1

\* every seed with the default configuration, and one with another
SynthArgs ==
  {[videoName |-> <<"a", " ", "b">>, seed |-> s, settings |-> MOCK_DEFAULTS] : s \in Seeds}
  \cup {[videoName |-> <<"a", " ", "b">>, seed |-> U32(12345), settings |-> OtherSettings]}

Tick ==
  /\ now < MaxTicks
  /\ now' = now + 1
  /\ UNCHANGED <<synthVars, streamVars, hashVars, storeVars, healthVars, rngVars, concVars>>

Synthesize(a) ==
  /\ synthArgs' = Some(a)
  /\ synthOut' = Some(generateAnalysisResult(a.videoName, a.seed, a.settings, Some(now)))
  /\ UNCHANGED <<now, synthRef, parseOut, streamVars, hashVars, storeVars, healthVars, rngVars, concVars>>

\* keep the last call to compare later calls with it
Remember ==
  /\ synthOut # None
  /\ synthRef' = [args |-> synthArgs, out |-> synthOut]
  /\ UNCHANGED <<now, synthArgs, synthOut, parseOut, streamVars, hashVars, storeVars, healthVars, rngVars, concVars>>

\* no call of the synthesizer or of the parser made yet
SynthIdle ==
  /\ synthArgs = None
  /\ synthOut = None
  /\ synthRef = [args |-> None, out |-> None]
  /\ parseOut = None

\* no response body to read
StreamIdle ==
  /\ stream = [frames |-> <<>>, tail |-> <<>>]
  /\ streamPos = 0
  /\ streamCuts = {}
  /\ reader = [buffer |-> <<>>, steps |-> <<>>, handled |-> 0, promise |-> <<"pending">>,
               running |-> FALSE]

\* no file to fingerprint
HashIdle ==
  /\ file = None
  /\ hashOut = None

\* the log and the table left out: nobody signed in, nothing stored, no call
StoreIdle ==
  /\ useMockApi = TRUE
  /\ session = None
  /\ storedAnalyses = <<>>
  /\ rows = <<>>
  /\ call = None

\* useBackendStatus as it is mounted, no check of the backend made
HealthIdle ==
  /\ health = None
  /\ healthOut = None
  /\ backendStatus = [isOnline |-> FALSE, isChecking |-> TRUE, retryCount |-> 0]
  /\ retryTimer = FALSE

\* no generator on its own
RngIdle == lcg = None

\* no call of saveAnalysisToDb or of analyzeVideo in flight
ConcIdle == saves = <<>> /\ flights = <<>>

InitSynth ==
  /\ now = 0
  /\ SynthIdle
  /\ StreamIdle
  /\ HashIdle
  /\ StoreIdle
  /\ HealthIdle
  /\ RngIdle
  /\ ConcIdle

NextSynth ==
  \/ Tick
  \/ \E a \in SynthArgs : Synthesize(a)
  \/ Remember

SpecSynth == InitSynth /\ [][NextSynth]_vars

\* ------------------------------------------------------------------------
\* The parser on its own: payloads drawn from a bounded set
\* ------------------------------------------------------------------------

Confidences ==
  {JUndefined, JNum(-5), JNum(0), JNum(87), JNum(150), JNull, JStr(<<"a">>),
   JStr(<<"4", "2">>)}

Decisions == {JUndefined, JStr(<<"OUT">>), JStr(<<"NOT_OUT">>)}

CriteriaObjects ==
  {JUndefined,
   JObj([pitched_in_line |-> JBool(TRUE), impactInLine |-> JBool(TRUE),
         leg_before_bat |-> JBool(TRUE), wouldHitWickets |-> JBool(TRUE)]),
   JObj([pitchedInLine |-> JBool(TRUE), would_hit_wickets |-> JBool(FALSE),
         wouldHitWickets |-> JBool(TRUE)])}

CreatedAts == {JUndefined, JStr(ToISOString(0))}

\* a key whose value is undefined is a key the payload does not have
Payload(confidence, decision, criteria, created_at) ==
  JObj([id |-> JStr(<<"r", "1">>),
        video_name |-> JStr(<<"a">>),
        decision |-> decision,
        confidence |-> confidence,
        criteria |-> criteria,
        trajectory |-> JArr(<<JObj([x |-> JNum(0), y |-> JNum(50), z |-> JNum(200)])>>),
        impact_point |-> JObj([x |-> JNum(230), y |-> JNum(50)]),
        created_at |-> created_at])

Payloads ==
  {Payload(c, d, k, t) : c \in Confidences, d \in Decisions, k \in CriteriaObjects,
                         t \in CreatedAts}
  \cup {JObj([id |-> JStr(<<"r", "2">>)])}

Parse(data) ==
  /\ parseOut' = Some(parseAnalysisResult(data, now))
  /\ UNCHANGED <<now, synthArgs, synthOut, synthRef, streamVars, hashVars, storeVars, healthVars, rngVars, concVars>>

InitParse == InitSynth

NextParse ==
  \/ Tick
  \/ \E data \in Payloads : Parse(data)

SpecParse == InitParse /\ [][NextParse]_vars

\* ------------------------------------------------------------------------
\* Properties of the synthesizer and of the parser
\* ------------------------------------------------------------------------

Synthesizing(seed, settings) ==
  /\ synthOut # None
  /\ synthArgs[1].seed = U32(seed)
  /\ synthArgs[1].settings = settings

AllCriteria(report) ==
  /\ report.criteria.pitchedInLine
  /\ report.criteria.impactInLine
  /\ report.criteria.legBeforeBat
  /\ report.criteria.wouldHitWickets

\* 0 <= x <= 100
InPercentRange(x) == ~NumLessThan(x, 0, 1) /\ ~NumGreaterThan(x, 100, 1)

\* the points of a part of the trajectory: the parts are told apart by the
\* denominator their heights are kept with
PointsOfPart(trajectory, part) ==
  LET den == CASE part = "release" -> 100 [] part = "bounce" -> 1000 [] part = "impact" -> 10
  IN  Cardinality({i \in DOMAIN trajectory : trajectory[i].z.den = den})

\* C1: two calls of the synthesizer with the same name, seed and
\* configuration return reports equal in every field, whatever calls
\* happen in between.
C1_SynthesisDeterministic ==
  (synthRef.args # None /\ synthRef.args = synthArgs) => synthRef.out = synthOut

\* C2: a synthesized report whose decision is OUT has all four criteria true.
C2_OutHasAllCriteria ==
  synthOut # None => (synthOut[1].decision = "OUT" => AllCriteria(synthOut[1]))

C2_Witness == synthOut # None /\ synthOut[1].decision = "OUT"

\* C3: a synthesized report whose decision is NOT_OUT has at least one of
\* the four criteria false.
C3_NotOutHasFalseCriterion ==
  synthOut # None => (synthOut[1].decision = "NOT_OUT" => ~AllCriteria(synthOut[1]))

\* C4: every synthesized report and every parsed report has a confidence
\* between 0 and 100.
C4_ConfidenceInRange ==
  /\ synthOut # None => InPercentRange(synthOut[1].confidence)
  /\ parseOut # None => InPercentRange(parseOut[1].confidence)

\* C5: the report's isUmpiresCall is true exactly when the impact analysis
\* or the wicket prediction says UMPIRES_CALL, and the wicket prediction
\* says so exactly when 25 <= hitPercentage < 50.
C5_UmpiresCallIffEither ==
  synthOut # None =>
    LET report == synthOut[1]
        impact == report.impactAnalysis[1]
        wicket == report.wicketPrediction[1]
    IN  /\ report.isUmpiresCall <=>
             (impact.umpiresCall = "UMPIRES_CALL" \/ wicket.umpiresCall = "UMPIRES_CALL")
        /\ wicket.umpiresCall = "UMPIRES_CALL" <=>
             (~NumLessThan(wicket.hitPercentage, 25, 1)
              /\ NumLessThan(wicket.hitPercentage, 50, 1))

\* the flag is set by the wicket prediction alone
C5_Witness ==
  /\ synthOut # None
  /\ synthOut[1].isUmpiresCall
  /\ synthOut[1].impactAnalysis[1].umpiresCall = "CLEAR"
  /\ synthOut[1].wicketPrediction[1].umpiresCall = "UMPIRES_CALL"

FirstDrawAbove45 ==
  LET seed == SeededRandom_next(synthArgs[1].seed)
  IN  seed[1] * Limb + seed[2] >= 966367642

\* C20 as claimed: the decision is NOT_OUT exactly when the first draw of
\* the sequence is greater than 0.45, and OUT otherwise.
C20_NotOutIffFirstDrawAbove ==
  synthOut # None =>
    /\ synthOut[1].decision = "NOT_OUT" <=> FirstDrawAbove45
    /\ synthOut[1].decision = "OUT" <=> ~FirstDrawAbove45

\* C20 as amended: the decision is OUT exactly when the first draw of the
\* sequence is greater than 0.45, and NOT_OUT otherwise.
C20_OutIffFirstDrawAbove ==
  synthOut # None =>
    /\ synthOut[1].decision = "OUT" <=> FirstDrawAbove45
    /\ synthOut[1].decision = "NOT_OUT" <=> ~FirstDrawAbove45

\* a report made from a first draw that is not greater than 0.45
C20_Witness == synthOut # None /\ ~FirstDrawAbove45 /\ synthOut[1].decision = "NOT_OUT"

\* ------------------------------------------------------------------------
\* The streaming client: uploadToBackend reading a text/event-stream body.
\* A character is a string of length one, and the text of a JSON value is
\* kept as "{", a token naming what is between the braces, and "}".
\* ------------------------------------------------------------------------

NewLine == "\n"
Delimiter == <<NewLine, NewLine>>
DataPrefix == <<"d", "a", "t", "a", ":", " ">>

\* what each token stands for
JsonContents ==
  [s1 |-> JObj([type |-> JStr(<<"step">>),
                step |-> JObj([id |-> JStr(<<"ball-detection">>),
                               status |-> JStr(<<"processing">>)])]),
   s2 |-> JObj([type |-> JStr(<<"step">>),
                step |-> JObj([id |-> JStr(<<"ball-detection">>),
                               status |-> JStr(<<"completed">>)])]),
   s3 |-> JObj([type |-> JStr(<<"step">>),
                step |-> JObj([id |-> JStr(<<"leg-detection">>),
                               status |-> JStr(<<"processing">>)])]),
   r1 |-> JObj([type |-> JStr(<<"result">>),
                result |-> Payload(JNum(87), JStr(<<"OUT">>), JUndefined, JStr(ToISOString(0)))]),
   e1 |-> JObj([type |-> JStr(<<"error">>), message |-> JStr(<<"no ball found">>)]),
   p1 |-> JObj([type |-> JStr(<<"ping">>)])]

\* JSON.parse(text): the value, absent when it throws a SyntaxError
JsonParse(text) ==
  IF Len(text) = 3 /\ text[1] = "{" /\ text[3] = "}" /\ text[2] \in DOMAIN JsonContents
  THEN Some(JsonContents[text[2]]) ELSE None

\* text.startsWith(prefix) and text.slice(n)
StartsWith(text, prefix) ==
  Len(text) >= Len(prefix) /\ SubSeq(text, 1, Len(prefix)) = prefix
Slice(text, n) == SubSeq(text, n + 1, Len(text))

\* the index of the first "\n\n" of text at or after i, 0 if there is none
RECURSIVE IndexOfDelimiter(_, _)
IndexOfDelimiter(text, i) ==
  IF i + 1 > Len(text) THEN 0
  ELSE IF text[i] = NewLine /\ text[i + 1] = NewLine THEN i
  ELSE IndexOfDelimiter(text, i + 1)

\* text.split('\n\n')
RECURSIVE Split(_)
Split(text) ==
  Bind(IndexOfDelimiter(text, 1), LAMBDA i :
    IF i = 0 THEN <<text>>
    ELSE <<SubSeq(text, 1, i - 1)>> \o Split(Slice(text, i + 1)))

\* a promise settles once
Settle(promise, outcome) == IF promise = <<"pending">> THEN outcome ELSE promise

\* one turn of the loop over the complete lines; rd is the state of
\* processEvents, which stops running when it returns
HandleLine_lenient(rd, line, dateNow) ==
  LET seen == [rd EXCEPT !.handled = @ + 1]
      parsed == JsonParse(Slice(line, Len(DataPrefix)))
      data == parsed[1]
      type == Field(data, "type")
      result == Field(data, "result")
  IN  IF ~StartsWith(line, DataPrefix) \/ parsed = None THEN seen
      ELSE IF type = JStr(<<"step">>)
        THEN [seen EXCEPT !.steps = Append(@, Field(data, "step"))]
      ELSE IF type = JStr(<<"result">>)
        THEN [seen EXCEPT
                !.promise = Settle(@, <<"resolved", parseAnalysisResult(result, dateNow)>>),
                !.running = FALSE]
      ELSE IF type = JStr(<<"error">>)
        THEN [seen EXCEPT
                !.promise = Settle(@, <<"rejected", StringOf(Field(data, "message"))>>),
                !.running = FALSE]
      ELSE seen
HandleLine(rd, line, dateNow) ==
  LET seen == [rd EXCEPT !.handled = @ + 1]
      parsed == JsonParse(Slice(line, Len(DataPrefix)))
      data == parsed[1]
      type == Field(data, "type")
      result == Field(data, "result")
      Throw(error) ==
        [seen EXCEPT !.promise = Settle(@, <<"rejected", error>>), !.running = FALSE]
  IN  IF ~StartsWith(line, DataPrefix) THEN seen
      ELSE IF parsed = None THEN Throw(<<"SyntaxError">>)
      ELSE IF type = JStr(<<"step">>)
        THEN [seen EXCEPT !.steps = Append(@, Field(data, "step"))]
      ELSE IF type = JStr(<<"result">>)
        THEN IF result[1] \in {"undefined", "null"} THEN Throw(<<"TypeError">>)
             ELSE [seen EXCEPT
                     !.promise = Settle(@, <<"resolved", parseAnalysisResult(result, dateNow)>>),
                     !.running = FALSE]
      ELSE IF type = JStr(<<"error">>)
        THEN [seen EXCEPT
                !.promise = Settle(@, <<"rejected", StringOf(Field(data, "message"))>>),
                !.running = FALSE]
      ELSE seen

RECURSIVE HandleLines(_, _, _)
HandleLines_on(rd, lines, dateNow) ==
  IF lines = <<>> THEN rd
  ELSE Bind(HandleLine(rd, Head(lines), dateNow), LAMBDA next :
         HandleLines(next, Tail(lines), dateNow))
HandleLines(rd, lines, dateNow) ==
  IF lines = <<>> \/ ~rd.running THEN rd
  ELSE Bind(HandleLine(rd, Head(lines), dateNow), LAMBDA next :
         HandleLines(next, Tail(lines), dateNow))

\* buffer = lines.pop() || ''
Remainder_dropped(lines) == <<>>
Remainder(lines) == lines[Len(lines)]

\* the body of the read loop once a chunk has arrived
ProcessChunk(rd, chunk, dateNow) ==
  Bind(Split(rd.buffer \o chunk), LAMBDA lines :
    HandleLines([rd EXCEPT !.buffer = Remainder(lines)],
                SubSeq(lines, 1, Len(lines) - 1), dateNow))

\* the characters of the body
RECURSIVE FramesText(_)
FramesText(frames) ==
  IF frames = <<>> THEN <<>> ELSE Head(frames) \o Delimiter \o FramesText(Tail(frames))
BodyText(body) == FramesText(body.frames) \o body.tail

\* the number of frames whose terminating blank line lies within the first
\* pos characters of the body
RECURSIVE CompleteFrames(_, _)
CompleteFrames(frames, pos) ==
  IF frames = <<>> \/ pos < Len(Head(frames)) + Len(Delimiter) THEN 0
  ELSE 1 + CompleteFrames(Tail(frames), pos - Len(Head(frames)) - Len(Delimiter))

\* where a read that has delivered pos characters of text has ended
CutKind(text, pos) ==
  IF pos = 0 \/ pos >= Len(text) THEN {}
  ELSE IF text[pos] = NewLine /\ text[pos + 1] = NewLine
         /\ (pos = 1 \/ text[pos - 1] # NewLine) THEN {"delimiter"}
  ELSE IF pos >= 2 /\ text[pos - 1] = NewLine /\ text[pos] = NewLine THEN {}
  ELSE {"frame"}

\* const { done, value } = await reader.read(), done false: the next n
\* characters arrive
Read(n) ==
  LET text == BodyText(stream)
  IN  /\ reader.running
      /\ streamPos + n <= Len(text)
      /\ reader' = ProcessChunk(reader, SubSeq(text, streamPos + 1, streamPos + n), now)
      /\ streamPos' = streamPos + n
      /\ streamCuts' = streamCuts \cup CutKind(text, streamPos + n)
      /\ UNCHANGED <<now, stream, synthVars, hashVars, storeVars, healthVars, rngVars, concVars>>

\* done true: the loop ends, whatever the buffer holds
ReadDone ==
  /\ reader.running
  /\ streamPos = Len(BodyText(stream))
  /\ reader' = [reader EXCEPT !.running = FALSE]
  /\ UNCHANGED <<now, stream, streamPos, streamCuts, synthVars, hashVars, storeVars, healthVars, rngVars, concVars>>

Frame(token) == DataPrefix \o <<"{", token, "}">>

\* frames of each kind: steps, a result, an error, an event of another
\* type, JSON cut short, and a comment of two lines
FrameKinds ==
  {Frame("s1"), Frame("s2"), Frame("r1"), Frame("e1"), Frame("p1"),
   DataPrefix \o <<"{", "s1">>, <<":", NewLine, "x">>}

\* what may follow the last frame: nothing, or a frame whose blank line
\* never comes
Tails == {<<>>, Frame("s2")}

MaxFrames == 2

Bodies ==
  {[frames |-> f, tail |-> t] :
     f \in UNION {[1..k -> FrameKinds] : k \in 0..MaxFrames}, t \in Tails}

\* a read delivers any number of the characters still to come
LongestBody ==
  CHOOSE n \in {Len(BodyText(b)) : b \in Bodies} : \A b \in Bodies : Len(BodyText(b)) <= n

InitStream ==
  /\ now = 0
  /\ SynthIdle
  /\ stream \in Bodies
  /\ streamPos = 0
  /\ streamCuts = {}
  /\ reader = [buffer |-> <<>>, steps |-> <<>>, handled |-> 0, promise |-> <<"pending">>,
               running |-> TRUE]
  /\ HashIdle
  /\ StoreIdle
  /\ HealthIdle
  /\ RngIdle
  /\ ConcIdle

NextStream ==
  \/ \E n \in 1..LongestBody : Read(n)
  \/ ReadDone

SpecStream == InitStream /\ [][NextStream]_vars

\* the reads of a body that arrives one whole frame at a time
WholeFrames(body) ==
  [i \in 1..Len(body.frames) |-> body.frames[i] \o Delimiter]
    \o (IF body.tail = <<>> THEN <<>> ELSE <<body.tail>>)

RECURSIVE RunChunks(_, _, _)
RunChunks(rd, chunks, dateNow) ==
  IF chunks = <<>> \/ ~rd.running THEN rd
  ELSE Bind(ProcessChunk(rd, Head(chunks), dateNow), LAMBDA next :
         RunChunks(next, Tail(chunks), dateNow))

NewReader ==
  [buffer |-> <<>>, steps |-> <<>>, handled |-> 0, promise |-> <<"pending">>, running |-> TRUE]

\* what the caller of uploadToBackend sees: the steps dispatched, in order,
\* and the outcome of the promise
Observed(rd) == [steps |-> rd.steps, promise |-> rd.promise]

IsPrefix(s, t) == Len(s) <= Len(t) /\ SubSeq(t, 1, Len(s)) = s

StreamEnded == ~reader.running

\* C6: however the body is cut into reads, the steps dispatched and the
\* outcome of the promise are those of the same body read one whole frame at
\* a time, and the lines handled never outnumber the frames whose blank line
\* has arrived
C6_ChunkingInvisible ==
  LET whole == RunChunks(NewReader, WholeFrames(stream), now)
  IN  /\ reader.handled <= CompleteFrames(stream.frames, streamPos)
      /\ IsPrefix(reader.steps, whole.steps)
      /\ StreamEnded => Observed(reader) = Observed(whole)

C6_Witness ==
  /\ StreamEnded
  /\ streamCuts = {"frame", "delimiter"}
  /\ reader.steps # <<>>
  /\ reader.promise[1] = "resolved"

\* C26: once the response stream has ended the call has settled: it has
\* resolved with a report or failed with an error, also when the stream
\* ends without a result or an error frame, or with a last frame that lacks
\* its blank line
C26_SettledWhenStreamEnds == StreamEnded => reader.promise # <<"pending">>

\* what holds: the promise is settled by a result frame, an error frame or
\* a frame that is not JSON, each complete, and by nothing else
C26_SettledByFrameOnly ==
  reader.promise # <<"pending">> => reader.handled > 0 /\ ~reader.running

\* what a complete frame is to the reader: not prefixed with 'data: ', not
\* JSON, or an event of a type
KindOf(frame) ==
  IF ~StartsWith(frame, DataPrefix) THEN "skipped"
  ELSE LET parsed == JsonParse(Slice(frame, Len(DataPrefix)))
       IN  IF parsed = None THEN "malformed"
           ELSE IF Field(parsed[1], "type") = JStr(<<"step">>) THEN "step"
           ELSE IF Field(parsed[1], "type") = JStr(<<"result">>) THEN "result"
           ELSE IF Field(parsed[1], "type") = JStr(<<"error">>) THEN "error"
           ELSE "other"

EventOf(frame) == JsonParse(Slice(frame, Len(DataPrefix)))[1]

\* the frames whose blank line has arrived, and those of them up to the
\* first that ends the call: a result, an error, or a frame that is not JSON
Arrived == SubSeq(stream.frames, 1, CompleteFrames(stream.frames, streamPos))
Ending(frame) == KindOf(frame) \in {"result", "error", "malformed"}
UpToEnding ==
  LET endings == {k \in DOMAIN Arrived : Ending(Arrived[k])}
  IN  IF endings = {} THEN Arrived
      ELSE SubSeq(Arrived, 1, CHOOSE k \in endings : \A j \in endings : k <= j)

\* the step records of the step frames among frames, in order
RECURSIVE StepsOf(_)
StepsOf(frames) ==
  IF frames = <<>> THEN <<>>
  ELSE (IF KindOf(Head(frames)) = "step" THEN <<Field(EventOf(Head(frames)), "step")>>
        ELSE <<>>) \o StepsOf(Tail(frames))

\* C16: the calls of onStep are the step records of the frames that have
\* arrived, in order, up to the first result or error frame; a result frame
\* resolves the call with the parsed report and an error frame rejects it
\* with the message; until then the call is pending; once the call has
\* settled no call of onStep is made and its outcome stays
C16_DispatchByType ==
  /\ [](LET last == UpToEnding[Len(UpToEnding)]
        IN  /\ reader.steps = StepsOf(UpToEnding)
            /\ UpToEnding # <<>> /\ KindOf(last) = "result"
                  /\ Field(EventOf(last), "result")[1] = "object" =>
                 reader.promise =
                   <<"resolved", parseAnalysisResult(Field(EventOf(last), "result"), now)>>
            /\ UpToEnding # <<>> /\ KindOf(last) = "error" =>
                 reader.promise = <<"rejected", StringOf(Field(EventOf(last), "message"))>>
            /\ UpToEnding = <<>> \/ ~Ending(last) => reader.promise = <<"pending">>)
  /\ [][reader.promise # <<"pending">> =>
         reader'.promise = reader.promise /\ reader'.steps = reader.steps]_vars

\* a step frame has arrived behind the frame that settled the call
C16_Witness ==
  /\ Len(Arrived) = 2
  /\ KindOf(Arrived[1]) \in {"result", "error"}
  /\ KindOf(Arrived[2]) = "step"
  /\ reader.promise # <<"pending">>

\* C17: a frame prefixed with 'data: ' that is not JSON, reached before any
\* result or error frame, rejects the call; no report is returned and no
\* frame behind it is dispatched
C17_MalformedFrameFails ==
  UpToEnding # <<>> /\ KindOf(UpToEnding[Len(UpToEnding)]) = "malformed" =>
    /\ reader.promise = <<"rejected", <<"SyntaxError">>>>
    /\ ~reader.running
    /\ reader.handled = Len(UpToEnding)
    /\ reader.steps = StepsOf(UpToEnding)

\* a result frame has arrived behind a frame that is not JSON
C17_Witness ==
  /\ Len(Arrived) = 2
  /\ KindOf(Arrived[1]) = "malformed"
  /\ KindOf(Arrived[2]) = "result"
  /\ reader.promise[1] = "rejected"

\* ------------------------------------------------------------------------
\* The content fingerprinter.  A File is its name, size and lastModified
\* stamp; its bytes are base, base + step, base + 2 * step, ... (mod 256).
\* ------------------------------------------------------------------------

\* a ^ b for 0 <= a, b < 2^16
RECURSIVE XorBits(_, _)
XorBits(a, b) ==
  IF a = 0 THEN b
  ELSE IF b = 0 THEN a
  ELSE ((a + b) % 2) + 2 * XorBits(a \div 2, b \div 2)

\* hash ^= v, on 32-bit values
Xor(hash, v) == <<XorBits(hash[1], v[1]), XorBits(hash[2], v[2])>>

\* Math.imul(hash, m), the low 32 bits of the product, for 0 <= m < 2^31
Imul(hash, m) ==
  LET lo == hash[2] * (m % Limb)
      hi == hash[1] * (m % Limb) + hash[2] * (m \div Limb) + lo \div Limb
  IN  <<hi % Limb, lo % Limb>>

\* let hash = 2166136261 (0x811C9DC5); const FNV_PRIME = 16777619
FnvOffsetBasis == <<33052, 40389>>
FNV_PRIME == 16777619

\* const chunkSize = 1024 * 1024
ChunkSize == 1024 * 1024

\* bytes[i] of the chunk that starts at byte start of the file
ByteAt(f, start, i) == (f.base + f.step * (start + i)) % 256

\* hash ^= bytes[i]; hash = Math.imul(hash, FNV_PRIME)
FoldByte(hash, byte) == Imul(Xor(hash, <<0, byte>>), FNV_PRIME)

\* for (let i = 0; i < bytes.length; i += sampleRate): the samples numbered
\* first .. first + count - 1 of one chunk
RECURSIVE FoldSamples(_, _, _, _, _, _)
FoldSamples(hash, f, start, sampleRate, first, count) ==
  IF count = 0 THEN hash
  ELSE IF count = 1 THEN FoldByte(hash, ByteAt(f, start, first * sampleRate))
  ELSE Bind(FoldSamples(hash, f, start, sampleRate, first, count \div 2), LAMBDA half :
         FoldSamples(half, f, start, sampleRate, first + count \div 2, count - count \div 2))

Max(a, b) == IF a >= b THEN a ELSE b
Min(a, b) == IF a <= b THEN a ELSE b

\* Math.min(((chunkIndex + 1) / totalChunks) * 100, 99)
ChunkProgress_uncapped(chunkIndex, totalChunks) ==
  Num((chunkIndex + 1) * 100, 0, 0, totalChunks)
ChunkProgress(chunkIndex, totalChunks) ==
  IF (chunkIndex + 1) * 100 >= 99 * totalChunks THEN Const(99)
  ELSE Num((chunkIndex + 1) * 100, 0, 0, totalChunks)

\* the loop over the chunks from chunkIndex on; readFault names the chunk
\* whose arrayBuffer() rejects, if one does.  thrown: the loop was left by
\* the exception
RECURSIVE HashChunks(_, _, _, _, _)
HashChunks(st, f, chunkIndex, totalChunks, readFault) ==
  IF chunkIndex >= totalChunks THEN st
  ELSE IF readFault = Some(chunkIndex) THEN [st EXCEPT !.thrown = TRUE]
  ELSE
    LET start == chunkIndex * ChunkSize
        end == Min(start + ChunkSize, f.size)
        length == end - start
        sampleRate == Max(1, length \div 1000)
        samples == (length + sampleRate - 1) \div sampleRate
    IN  Bind(FoldSamples(st.hash, f, start, sampleRate, 0, samples), LAMBDA hash :
          HashChunks([st EXCEPT !.hash = hash,
                                !.progress = Append(@, ChunkProgress(chunkIndex, totalChunks))],
                     f, chunkIndex + 1, totalChunks, readFault))

\* str.charCodeAt(i), for the characters of the names of the model
CharCode(ch) ==
  CASE ch = " " -> 32
    [] ch = "-" -> 45
    [] ch = "." -> 46
    [] ch = "_" -> 95
    [] ch = "a" -> 97
    [] ch = "b" -> 98
    [] OTHER -> 48 + DigitOf(ch)

\* hash = ((hash << 5) - hash) + char; hash = hash & hash, on the 32 bits of
\* the signed value
FoldChar(hash, char) ==
  LET lo == 31 * hash[2] + char
      hi == 31 * hash[1] + lo \div Limb
  IN  <<hi % Limb, lo % Limb>>

RECURSIVE FoldString(_, _)
FoldString(hash, str) ==
  IF str = <<>> THEN hash ELSE FoldString(FoldChar(hash, CharCode(Head(str))), Tail(str))

\* Math.abs of the signed 32-bit value with these bits
AbsInt32(hash) ==
  IF hash[1] < 2^15 THEN hash
  ELSE <<(Limb - hash[1] - (IF hash[2] = 0 THEN 0 ELSE 1)) % Limb, (Limb - hash[2]) % Limb>>

\* the catch branch: `${file.name}-${file.size}-${file.lastModified}`
MetadataHash(f) ==
  AbsInt32(FoldString(<<0, 0>>,
    f.name \o <<"-">> \o DecimalString(f.size) \o <<"-">> \o DecimalString(f.lastModified)))

\* the try branch once every chunk is read
ContentHash(hash, f) == Imul(Xor(hash, U32(f.size)), FNV_PRIME)

\* onProgress?.(100) at the end of the try branch
FinalProgress_none(progress) == progress
FinalProgress(progress) == Append(progress, Const(100))

\* the seed returned, the values handed to onProgress in order, and whether
\* console.warn reported the fall back to the metadata hash
generateFileHash(f, readFault) ==
  LET totalChunks == (f.size + ChunkSize - 1) \div ChunkSize
  IN  Bind(HashChunks([hash |-> FnvOffsetBasis, progress |-> <<>>, thrown |-> FALSE],
                      f, 0, totalChunks, readFault), LAMBDA st :
        IF st.thrown
        THEN [seed |-> MetadataHash(f), progress |-> Append(st.progress, Const(100)),
              warned |-> TRUE]
        ELSE [seed |-> ContentHash(st.hash, f), progress |-> FinalProgress(st.progress),
              warned |-> FALSE])

Names == {<<"a">>, <<"a", " ", "b">>, <<"a", "_", "b">>}
Sizes == {0, 1, 3, 2500, ChunkSize, ChunkSize + 1, 2 * ChunkSize + 1}
Contents == {<<0, 0>>, <<1, 7>>, <<255, 1>>}
Stamps == {0, 7}

Files ==
  {[name |-> n, size |-> z, lastModified |-> t, base |-> c[1], step |-> c[2]] :
     n \in Names, z \in Sizes, t \in Stamps, c \in Contents}

\* no chunk fails, or the first, the second or the third does
ReadFaults == {None, Some(0), Some(1), Some(2)}

Fingerprint(readFault) ==
  /\ file # None
  /\ hashOut' = Some(generateFileHash(file[1], readFault))
  /\ UNCHANGED <<now, file, synthVars, streamVars, storeVars, healthVars, rngVars, concVars>>

InitHash ==
  /\ now = 0
  /\ SynthIdle
  /\ StreamIdle
  /\ file \in {Some(f) : f \in Files}
  /\ hashOut = None
  /\ StoreIdle
  /\ HealthIdle
  /\ RngIdle
  /\ ConcIdle

NextHash == \E readFault \in ReadFaults : Fingerprint(readFault)

SpecHash == InitHash /\ [][NextHash]_vars

\* the number of times v was handed to the callback
Occurrences(seq, v) == Cardinality({i \in DOMAIN seq : seq[i] = v})

ZeroByteFingerprinted == file # None /\ hashOut # None /\ file[1].size = 0

\* C9 as stated: the fingerprint of a zero-byte file is returned, it is the
\* metadata hash of the fall-back branch, and 100 is reported exactly once
C9_ZeroByteTakesFallback ==
  ZeroByteFingerprinted =>
    /\ hashOut[1].warned
    /\ hashOut[1].seed = MetadataHash(file[1])
    /\ Occurrences(hashOut[1].progress, Const(100)) = 1

\* C9: the fingerprint of a zero-byte file is returned, it is the content
\* hash of no bytes and size 0 with no fall back, and the only progress
\* reported is 100, once
C9_ZeroByteTakesContentPath ==
  ZeroByteFingerprinted =>
    /\ ~hashOut[1].warned
    /\ hashOut[1].seed = Imul(FnvOffsetBasis, FNV_PRIME)
    /\ hashOut[1].progress = <<Const(100)>>
    /\ Occurrences(hashOut[1].progress, Const(100)) = 1

C9_Witness ==
  /\ ZeroByteFingerprinted
  /\ hashOut[1].seed # MetadataHash(file[1])
  /\ Len(hashOut[1].progress) = 1

\* Math.ceil(file.size / chunkSize) of the file fingerprinted
ChunksOf(f) == (f.size + ChunkSize - 1) \div ChunkSize

\* p <= q and p = k / n * 100 capped at 99, for values that hold no draw
ProgressLeq(p, q) == p.a * q.den <= q.a * p.den
IsKthOf(p, k, n) ==
  IF k * 100 > 99 * n THEN p.a = 99 * p.den ELSE p.a * n = k * 100 * p.den

\* C22: for a file of n >= 1 chunks the callback receives one value for
\* each chunk read, the k-th being min(k / n * 100, 99), and then 100; all n
\* chunks when no read fails; the values never decrease; 100 is reported
\* exactly once and is the last value, also when the read of a chunk fails
C22_ProgressReported ==
  file # None /\ hashOut # None /\ ChunksOf(file[1]) >= 1 =>
    LET progress == hashOut[1].progress
        n == ChunksOf(file[1])
        read == Len(progress) - 1
    IN  /\ read >= 0
        /\ read <= n
        /\ ~hashOut[1].warned => read = n
        /\ hashOut[1].warned => read < n
        /\ \A k \in 1..read : IsKthOf(progress[k], k, n)
        /\ progress[read + 1] = Const(100)
        /\ \A k \in 1..read : ProgressLeq(progress[k], progress[k + 1])
        /\ \A k \in 1..read : ~ProgressLeq(Const(100), progress[k])

\* three chunks: all read, and the read of the third failed
C22_Witness ==
  /\ file # None
  /\ hashOut # None
  /\ ChunksOf(file[1]) = 3
  /\ \/ ~hashOut[1].warned /\ Len(hashOut[1].progress) = 4
     \/ hashOut[1].warned /\ Len(hashOut[1].progress) = 3

\* ------------------------------------------------------------------------
\* The durable store (analysisDbService.ts, getSettings).  One user has an
\* account, with a row of saved settings.  Each call of the client library
\* is a site that may answer with an error or throw; fault names the site
\* of the call at hand that does, if one does.
\* ------------------------------------------------------------------------
User == "u1"
SavedSettings == OtherSettings

Outcome(fault, site) == IF fault # None /\ fault[1].site = site THEN fault[1].how ELSE "ok"

Thrown == <<"throw">>
Returned(v) == <<"return", v>>

\* await supabase.auth.getUser(): the user, null when the lookup answers
\* with an error
GetUser(sess, fault, site) ==
  CASE Outcome(fault, site) = "throw" -> Thrown
    [] Outcome(fault, site) = "error" -> Returned(None)
    [] OTHER -> Returned(sess)

getSettings(sess, fault) ==
  LET user == GetUser(sess, fault, "getSettings.getUser")
      select == Outcome(fault, "getSettings.select")
  IN  IF user = Thrown THEN Thrown
      ELSE IF user[2] = None THEN Returned(DEFAULTS)
      ELSE IF select = "throw" THEN Thrown
      ELSE IF select = "error" THEN Returned(DEFAULTS)
      ELSE Returned(SavedSettings)

isUserAuthenticated(sess, fault, site) ==
  LET user == GetUser(sess, fault, site)
  IN  IF user = Thrown THEN Thrown ELSE Returned(user[2] # None)

\* a property a report may lack
Prop(report, key) == IF key \in DOMAIN report THEN report[key] ELSE None

\* the row toDbFormat builds; the columns no operation reads back
\* (ball_speed, ball_spin, pitching_zone, impact_zone) are left out.
\* createdAt.toISOString() throws on an Invalid Date
toDbFormat(result, userId) ==
  IF result.createdAt = None THEN Thrown
  ELSE Returned(
    [user_id |-> userId,
     analysis_id |-> result.id,
     video_name |-> result.videoName,
     decision |-> result.decision,
     confidence |-> result.confidence,
     umpires_call |-> result.isUmpiresCall,
     impact_point |-> result.impactPoint,
     wicket_point |-> result.predictedWicketHit,
     trajectory |-> result.trajectory,
     key_frames |-> Prop(result, "keyFrames"),
     analysis_timestamp |-> ToISOString(result.createdAt[1])])

\* confidence NUMERIC(5,2): a number a + b * s / 0x7fffffff rounded to
\* hundredths, half away from zero (a, b >= 0)
Numeric52(x) ==
  LET scaled == ScaleDivMod(100 * x.b, x.s)
  IN  100 * x.a + scaled.q + (IF scaled.r >= 2^30 THEN 1 ELSE 0)

\* the row as the table keeps it, or None when a constraint rejects it:
\* CHECK (confidence >= 0 AND confidence <= 100), CHECK (decision IN ...);
\* analysis_timestamp TIMESTAMPTZ is the instant the text names
Stored(dbData) ==
  LET hundredths == IF dbData.confidence.a < 0 THEN -1 ELSE Numeric52(dbData.confidence)
  IN  IF hundredths < 0 \/ hundredths > 10000 \/ dbData.decision \notin {"OUT", "NOT_OUT"}
      THEN None
      ELSE Some([dbData EXCEPT
                   !.confidence = Num(hundredths, 0, 0, 100),
                   !.analysis_timestamp = DateOfString(dbData.analysis_timestamp)[1]])

\* the rows the policies let the caller see: USING (auth.uid() = user_id)
Visible(table, sess) == SelectSeq(table, LAMBDA row : sess # None /\ row.user_id = sess[1])

\* the position in table of the caller's row for the report, 0 if none
RowIndex(table, sess, analysisId) ==
  IF \E i \in DOMAIN table :
       sess # None /\ table[i].user_id = sess[1] /\ table[i].analysis_id = analysisId
  THEN CHOOSE i \in DOMAIN table :
       sess # None /\ table[i].user_id = sess[1] /\ table[i].analysis_id = analysisId
  ELSE 0

\* the table after the call, and the boolean returned
saveAnalysisToDb(result, sess, table, fault) ==
  LET failed == [table |-> table, saved |-> FALSE]
      user == GetUser(sess, fault, "save.getUser")
      dbData == toDbFormat(result, user[2][1])
      select == Outcome(fault, "save.select")
      write == Outcome(fault, "save.write")
      existing == IF select = "error" THEN 0 ELSE RowIndex(table, user[2], result.id)
      stored == Stored(dbData[2])
  IN  IF user = Thrown \/ user[2] = None THEN failed
      ELSE IF dbData = Thrown THEN failed
      ELSE IF select = "throw" \/ write # "ok" \/ stored = None THEN failed
      ELSE IF existing # 0
        THEN [table |-> [table EXCEPT ![existing] = stored[1]], saved |-> TRUE]
      \* UNIQUE(user_id, analysis_id)
      ELSE IF RowIndex(table, user[2], result.id) # 0 THEN failed
      ELSE [table |-> <<stored[1]>> \o table, saved |-> TRUE]

\* a timestamptz column as the table answers it, read by new Date(...)
DateOfColumn(instant) == DateOfString(ToISOString(instant))

fromDbFormat(row) ==
  [id |-> row.analysis_id,
   videoName |-> row.video_name,
   decision |-> row.decision,
   confidence |-> row.confidence,
   isUmpiresCall |-> row.umpires_call,
   impactPoint |-> row.impact_point,
   predictedWicketHit |-> row.wicket_point,
   trajectory |-> row.trajectory,
   createdAt |-> DateOfColumn(row.analysis_timestamp),
   keyFrames |-> row.key_frames]

\* the partial report, None for null
getAnalysisFromDb(analysisId, sess, table, fault) ==
  LET index == RowIndex(table, sess, analysisId)
  IN  IF Outcome(fault, "read.select") # "ok" \/ index = 0 THEN None
      ELSE Some(fromDbFormat(table[index]))

\* what the table answers to getVideoHistoryFromDb: [] on an error
getVideoHistoryFromDb(sess, table, fault) ==
  IF Outcome(fault, "read.select") # "ok" THEN <<>>
  ELSE LET data == Visible(table, sess)
       IN  [i \in DOMAIN data |->
              [id |-> data[i].analysis_id,
               name |-> data[i].video_name,
               thumbnail |-> "/placeholder.svg",
               decision |-> data[i].decision,
               confidence |-> data[i].confidence,
               analyzedAt |-> DateOfColumn(data[i].analysis_timestamp)]]

\* the counts of a list of reports or rows; averageConfidence and
\* accuracyRate are left out
StatsOf(decisions) ==
  LET outCount == Cardinality({i \in DOMAIN decisions : decisions[i] = "OUT"})
  IN  [totalAnalyses |-> Len(decisions), outDecisions |-> outCount,
       notOutDecisions |-> Len(decisions) - outCount]

getDashboardStatsFromDb(sess, table, fault) ==
  IF Outcome(fault, "read.select") # "ok" THEN StatsOf(<<>>)
  ELSE LET data == Visible(table, sess)
       IN  StatsOf([i \in DOMAIN data |-> data[i].decision])

FirstOf(seq, limit) == SubSeq(seq, 1, Min(limit, Len(seq)))

getRecentAnalysesFromDb(limit, sess, table, fault) ==
  IF Outcome(fault, "read.select") # "ok" THEN <<>>
  ELSE LET data == FirstOf(Visible(table, sess), limit)
       IN  [i \in DOMAIN data |-> fromDbFormat(data[i])]

\* the table after the call (the boolean returned is not looked at)
deleteAnalysisFromDb(analysisId, sess, table, fault) ==
  IF Outcome(fault, "delete") # "ok" THEN table
  ELSE SelectSeq(table, LAMBDA row :
         ~(sess # None /\ row.user_id = sess[1] /\ row.analysis_id = analysisId))

\* ------------------------------------------------------------------------
\* The user-facing operations of settingsService.ts.  reply is what the
\* analysis backend answers to the request of the call, where one is made.
\* ------------------------------------------------------------------------

\* storedAnalyses.find(a => a.id === id)
Find_none(analyses, id) == None
Find(analyses, id) ==
  IF \E i \in DOMAIN analyses : analyses[i].id = id
  THEN Some(analyses[CHOOSE i \in DOMAIN analyses :
                       /\ analyses[i].id = id
                       /\ \A j \in 1..(i - 1) : analyses[j].id # id])
  ELSE None

DefaultCriteria(decision) ==
  [pitchedInLine |-> TRUE, impactInLine |-> TRUE, legBeforeBat |-> TRUE,
   wouldHitWickets |-> decision = "OUT"]

\* the report getAnalysisResult builds from the partial report of the table
\* and the report of the log with the same id, if there is one
MergeAnalysis(dbResult, mockAnalysis, id) ==
  LET known == mockAnalysis # None
      mock == mockAnalysis[1]
  IN  [id |-> dbResult.id,
       videoId |-> IF known THEN mock.videoId ELSE <<"video", id>>,
       videoName |-> dbResult.videoName,
       videoThumbnail |-> IF known THEN mock.videoThumbnail ELSE "/placeholder.svg",
       decision |-> dbResult.decision,
       confidence |-> dbResult.confidence,
       criteria |-> IF known THEN mock.criteria ELSE DefaultCriteria(dbResult.decision),
       steps |-> IF known THEN mock.steps ELSE CompletedSteps,
       \* every row holds a trajectory and an impact point: || keeps them
       trajectory |-> dbResult.trajectory,
       impactPoint |-> dbResult.impactPoint,
       bouncePoint |-> IF known THEN mock.bouncePoint ELSE [x |-> Const(130), y |-> Const(50)],
       predictedWicketHit |-> dbResult.predictedWicketHit,
       createdAt |-> dbResult.createdAt,
       isUmpiresCall |-> dbResult.isUmpiresCall,
       keyFrames |-> dbResult.keyFrames,
       ballMetrics |-> IF known THEN mock.ballMetrics ELSE None,
       pitchAnalysis |-> IF known THEN mock.pitchAnalysis ELSE None,
       impactAnalysis |-> IF known THEN mock.impactAnalysis ELSE None,
       wicketPrediction |-> IF known THEN mock.wicketPrediction ELSE None]

\* a promise fulfilled with v, rejected with an error, or never settled
Resolved(v) == <<"resolved", v>>
Rejected(error) == <<"rejected", error>>
Pending == <<"pending">>

\* fetch(...) and response.json(): the backend is down, answers with a
\* status that is not ok, or answers with JSON
IsJson(reply) == reply[1] = "json"

getAnalysisResult(id, mockApi, sess, analyses, table, fault, reply, dateNow) ==
  LET authenticated == isUserAuthenticated(sess, fault, "isUserAuthenticated")
      dbResult == IF authenticated = Thrown \/ ~authenticated[2] THEN None
                  ELSE getAnalysisFromDb(id, sess, table, fault)
  IN  IF dbResult # None THEN Resolved(Some(MergeAnalysis(dbResult[1], Find(analyses, id), id)))
      ELSE IF ~mockApi
        THEN IF IsJson(reply) /\ reply[2][1] \notin {"undefined", "null"}
             THEN Resolved(Some(parseAnalysisResult(reply[2], dateNow)))
             ELSE Resolved(None)
      ELSE Resolved(Find(analyses, id))

\* an item of the history as the backend lists it
HistoryItemOf(item) ==
  [id |-> StringOf(Field(item, "id")),
   name |-> StringOf(OrElse(Field(item, "name"), Field(item, "video_name"))),
   thumbnail |-> "/placeholder.svg",
   decision |-> Field(item, "decision"),
   confidence |-> ToNumber(Field(item, "confidence")),
   analyzedAt |-> DateOfString(StringOf(
     OrElse(Field(item, "analyzed_at"),
            OrElse(Field(item, "analyzedAt"), Field(item, "created_at")))))]

getVideoHistory(mockApi, sess, analyses, table, fault, reply) ==
  LET authenticated == isUserAuthenticated(sess, fault, "isUserAuthenticated")
      dbHistory == IF authenticated = Thrown \/ ~authenticated[2] THEN <<>>
                   ELSE getVideoHistoryFromDb(sess, table, fault)
  IN  IF dbHistory # <<>> THEN Resolved(dbHistory)
      ELSE IF ~mockApi
        THEN IF IsJson(reply) /\ reply[2][1] = "array"
             THEN Resolved([i \in DOMAIN reply[2][2] |-> HistoryItemOf(reply[2][2][i])])
             ELSE Resolved(<<>>)
      ELSE Resolved([i \in DOMAIN analyses |->
             [id |-> analyses[i].id,
              name |-> analyses[i].videoName,
              thumbnail |-> analyses[i].videoThumbnail,
              decision |-> analyses[i].decision,
              confidence |-> analyses[i].confidence,
              analyzedAt |-> analyses[i].createdAt]])

\* Number(data.total_analyses || data.totalAnalyses || 0)
CountOf(data, snake, camel) ==
  ToNumber(OrElse(Field(data, snake), OrElse(Field(data, camel), JNum(0))))[2]

getDashboardStats_logOnly(mockApi, sess, analyses, table, fault, reply) ==
  IF ~mockApi THEN Resolved(StatsOf(<<>>))
  ELSE Resolved(StatsOf([i \in DOMAIN analyses |-> analyses[i].decision]))
getDashboardStats(mockApi, sess, analyses, table, fault, reply) ==
  LET authenticated == isUserAuthenticated(sess, fault, "isUserAuthenticated")
      dbStats == IF authenticated = Thrown \/ ~authenticated[2] THEN StatsOf(<<>>)
                 ELSE getDashboardStatsFromDb(sess, table, fault)
  IN  IF dbStats.totalAnalyses > 0 THEN Resolved(dbStats)
      ELSE IF ~mockApi
        THEN IF IsJson(reply) /\ reply[2][1] \notin {"undefined", "null"}
             THEN Resolved([totalAnalyses |-> CountOf(reply[2], "total_analyses", "totalAnalyses"),
                            outDecisions |-> CountOf(reply[2], "out_decisions", "outDecisions"),
                            notOutDecisions |->
                              CountOf(reply[2], "not_out_decisions", "notOutDecisions")])
             ELSE Resolved(StatsOf(<<>>))
      ELSE Resolved(StatsOf([i \in DOMAIN analyses |-> analyses[i].decision]))

\* a partial report of the table filled in with the defaults
FilledIn(partial) ==
  [id |-> partial.id,
   videoId |-> <<"video", partial.id>>,
   videoName |-> partial.videoName,
   videoThumbnail |-> "/placeholder.svg",
   decision |-> partial.decision,
   confidence |-> partial.confidence,
   criteria |-> DefaultCriteria(partial.decision),
   steps |-> CompletedSteps,
   trajectory |-> partial.trajectory,
   impactPoint |-> partial.impactPoint,
   bouncePoint |-> [x |-> Const(130), y |-> Const(50)],
   predictedWicketHit |-> partial.predictedWicketHit,
   createdAt |-> partial.createdAt,
   isUmpiresCall |-> partial.isUmpiresCall,
   keyFrames |-> partial.keyFrames]

getRecentAnalyses(limit, mockApi, sess, analyses, table, fault, reply, dateNow) ==
  LET authenticated == isUserAuthenticated(sess, fault, "isUserAuthenticated")
      dbRecent == IF authenticated = Thrown \/ ~authenticated[2] THEN <<>>
                  ELSE getRecentAnalysesFromDb(limit, sess, table, fault)
  IN  IF dbRecent # <<>> THEN Resolved([i \in DOMAIN dbRecent |-> FilledIn(dbRecent[i])])
      ELSE IF ~mockApi
        THEN IF IsJson(reply) /\ reply[2][1] = "array"
             THEN Resolved([i \in DOMAIN reply[2][2] |->
                              parseAnalysisResult(reply[2][2][i], dateNow)])
             ELSE Resolved(<<>>)
      ELSE Resolved(FirstOf(analyses, limit))

\* storedAnalyses.splice(index, 1) at the first report with the id
Spliced(analyses, id) ==
  LET found == {i \in DOMAIN analyses : analyses[i].id = id}
      index == CHOOSE i \in found : \A j \in found : i <= j
  IN  IF found = {} THEN analyses
      ELSE SubSeq(analyses, 1, index - 1) \o SubSeq(analyses, index + 1, Len(analyses))

\* the promise, the log and the table after the call
deleteAnalysis(id, mockApi, sess, analyses, table, fault, reply) ==
  LET authenticated == isUserAuthenticated(sess, fault, "isUserAuthenticated")
      after == IF authenticated = Thrown \/ ~authenticated[2] THEN table
               ELSE deleteAnalysisFromDb(id, sess, table, fault)
  IN  IF ~mockApi
      THEN [promise |-> Resolved(reply[1] # "down" /\ reply[1] # "status"),
            analyses |-> analyses, table |-> after]
      ELSE [promise |-> Resolved(TRUE), analyses |-> Spliced(analyses, id), table |-> after]

\* onStepUpdate is the caller's: stepFault names the call of it that
\* throws, if one does, counted from the first.  That call is the last made
CallbackThrows(steps, stepFault) == stepFault # None /\ stepFault[1] <= Len(steps)
CallsMade(steps, stepFault) ==
  IF CallbackThrows(steps, stepFault) THEN SubSeq(steps, 1, stepFault[1]) ELSE steps

\* data.step as AnalysisStep: the step of a frame as the callback reads it
AsAnalysisStep(step) ==
  [id |-> Field(step, "id")[2][1], status |-> Field(step, "status")[2][1], data |-> None]

\* the promise of uploadToBackend and the steps handed to onStepUpdate: the
\* request fails, the status is not ok, the body is JSON, or it is an event
\* stream (read here one whole frame at a time)
uploadToBackend(reply, stepFault, dateNow) ==
  CASE reply[1] = "down" -> [promise |-> Rejected(<<"TypeError">>), steps |-> <<>>]
    [] reply[1] = "status" -> [promise |-> Rejected(<<"Analysis failed">>), steps |-> <<>>]
    [] reply[1] = "json" ->
         [promise |-> IF CallbackThrows(CompletedSteps, stepFault) THEN Rejected(<<"callback">>)
                      ELSE IF reply[2][1] \in {"undefined", "null"} THEN Rejected(<<"TypeError">>)
                      ELSE Resolved(parseAnalysisResult(reply[2], dateNow)),
          steps |-> CallsMade(CompletedSteps, stepFault)]
    [] OTHER ->
         Bind(RunChunks(NewReader, WholeFrames(reply[2]), dateNow), LAMBDA rd :
           LET steps == [i \in DOMAIN rd.steps |-> AsAnalysisStep(rd.steps[i])]
           IN  \* a throw of the callback is caught in processEvents: reject(err)
               [promise |-> IF CallbackThrows(steps, stepFault) THEN Rejected(<<"callback">>)
                            ELSE rd.promise,
                steps |-> CallsMade(steps, stepFault)])

\* the calls of onStepUpdate of the mock implementation: each step as
\* processing, then as completed, with data when the analysis is new
StepCalls(fresh, dateNow) ==
  [k \in 1..(2 * Len(createAnalysisSteps)) |->
     LET step == createAnalysisSteps[(k + 1) \div 2]
     IN  IF k % 2 = 1 THEN [step EXCEPT !.status = "processing"]
         ELSE [step EXCEPT
                 !.status = "completed",
                 !.data = IF fresh THEN Some([processed |-> TRUE, timestamp |-> dateNow])
                          ELSE None]]

\* steps once the loop has run
FinishedSteps(dateNow) ==
  [i \in DOMAIN createAnalysisSteps |->
     [createAnalysisSteps[i] EXCEPT
        !.status = "completed",
        !.data = Some([processed |-> TRUE, timestamp |-> dateNow])]]

\* the real API call, settings fetched; upserts counts the calls of
\* saveAnalysisToDb
AnalyzeReal(sess, analyses, table, fault, stepFault, reply, dateNow) ==
  Bind(uploadToBackend(reply, stepFault, dateNow), LAMBDA upload :
    [promise |-> upload.promise,
     analyses |-> analyses,
     table |-> IF upload.promise[1] = "resolved"
               THEN saveAnalysisToDb(upload.promise[2], sess, table, fault).table
               ELSE table,
     upserts |-> IF upload.promise[1] = "resolved" THEN 1 ELSE 0,
     steps |-> upload.steps,
     progress |-> <<Const(100)>>])

\* the log a new mock analysis leaves: storedAnalyses.unshift(result) comes
\* after the loop over the steps, which a throw of the callback leaves
LogAfter_early(analyses, result, threw) == <<result>> \o analyses
LogAfter(analyses, result, threw) == IF threw THEN analyses ELSE <<result>> \o analyses

\* the mock implementation, settings fetched
AnalyzeMock(f, readFault, settings, sess, analyses, table, fault, stepFault, dateNow) ==
  Bind(generateFileHash(f, readFault), LAMBDA hashed :
  Bind(Find(analyses, AnalysisId(hashed.seed, f.name)), LAMBDA existingAnalysis :
    IF existingAnalysis # None
    THEN LET steps == StepCalls(FALSE, dateNow)
         IN  [promise |-> IF CallbackThrows(steps, stepFault) THEN Rejected(<<"callback">>)
                          ELSE Resolved(existingAnalysis[1]),
              analyses |-> analyses,
              table |-> table,
              upserts |-> 0,
              steps |-> CallsMade(steps, stepFault),
              progress |-> hashed.progress]
    ELSE
      Bind([generateAnalysisResult(f.name, hashed.seed, settings, Some(dateNow))
              EXCEPT !.steps = FinishedSteps(dateNow)], LAMBDA result :
        LET steps == StepCalls(TRUE, dateNow)
            threw == CallbackThrows(steps, stepFault)
            authenticated == isUserAuthenticated(sess, fault, "isUserAuthenticated")
            saving == ~threw /\ authenticated # Thrown /\ authenticated[2]
        IN  [promise |-> IF threw THEN Rejected(<<"callback">>) ELSE Resolved(result),
             analyses |-> LogAfter(analyses, result, threw),
             table |-> IF saving THEN saveAnalysisToDb(result, sess, table, fault).table
                       ELSE table,
             upserts |-> IF saving THEN 1 ELSE 0,
             steps |-> CallsMade(steps, stepFault),
             progress |-> hashed.progress])))

\* the promise of analyzeVideo, the log and the table after the call, and
\* the calls made to onStepUpdate and onFileReadProgress
analyzeVideo(f, readFault, mockApi, sess, analyses, table, fault, stepFault, reply, dateNow) ==
  LET settings == getSettings(sess, fault)
  IN  IF settings = Thrown
      THEN [promise |-> Rejected(<<"getSettings">>), analyses |-> analyses, table |-> table,
            upserts |-> 0, steps |-> <<>>, progress |-> <<>>]
      ELSE IF ~mockApi THEN AnalyzeReal(sess, analyses, table, fault, stepFault, reply, dateNow)
      ELSE AnalyzeMock(f, readFault, settings[2], sess, analyses, table, fault, stepFault,
                       dateNow)

\* The upload page (Upload.tsx).  The steps it shows: all pending at first
PageSteps ==
  [i \in DOMAIN createAnalysisSteps |-> [id |-> createAnalysisSteps[i].id, status |-> "pending"]]

\* setSteps(prev => prev.map(s => s.id === updatedStep.id ? updatedStep : s))
UpdateStep(prev, updatedStep) ==
  [i \in DOMAIN prev |-> IF prev[i].id = updatedStep.id THEN updatedStep ELSE prev[i]]

\* the steps shown once the calls of the callback have been applied in order
RECURSIVE StepsShown(_, _)
StepsShown(prev, calls) ==
  IF calls = <<>> THEN prev ELSE StepsShown(UpdateStep(prev, Head(calls)), Tail(calls))

\* the catch branch: the steps in processing are marked as failed
MarkFailed_none(prev) == prev
MarkFailed(prev) ==
  [i \in DOMAIN prev |->
     IF prev[i].status = "processing" THEN [prev[i] EXCEPT !.status = "error"] ELSE prev[i]]

\* the steps the page shows once the promise of analyzeVideo has settled,
\* and whether it shows an error
handleFileSelect(done) ==
  Bind(StepsShown(PageSteps, done.steps), LAMBDA shown :
    IF done.promise[1] = "rejected" THEN [steps |-> MarkFailed(shown), error |-> TRUE]
    ELSE [steps |-> shown, error |-> FALSE])

\* ------------------------------------------------------------------------
\* The log and the table under the user-facing operations, each call taken
\* as one step
\* ------------------------------------------------------------------------
DayMs == 24 * 60 * 60 * 1000

\* the five analyses of the log at start-up; a name without white space is
\* kept in one piece
InitialAnalyses(dateNow) ==
  LET names == <<"match_delivery_01.mp4", "street_cricket_lbw.mp4", "practice_session_2.mp4",
                 "tournament_final_over.mp4", "backyard_match.mp4">>
      seeds == <<12345, 67890, 11111, 22222, 33333>>
  IN  [i \in DOMAIN names |->
         [generateAnalysisResult(<<names[i]>>, U32(seeds[i]), MOCK_DEFAULTS, Some(dateNow))
            EXCEPT !.createdAt = Some(dateNow - i * DayMs)]]

\* the file analysed
StoreFiles == {[name |-> <<"a", " ", "b">>, size |-> 3, lastModified |-> 7, base |-> 1, step |-> 7]}

FaultsAt(sites) == {None} \cup {Some([site |-> s, how |-> h]) : s \in sites, h \in {"error", "throw"}}

\* the call of onStepUpdate that throws, if one does
StepFaults == {None, Some(1), Some(2)}

AnalyzeSites ==
  {"getSettings.getUser", "getSettings.select", "isUserAuthenticated",
   "save.getUser", "save.select", "save.write"}
ReadSites == {"isUserAuthenticated", "read.select"}
DeleteSites == {"isUserAuthenticated", "delete"}

\* what the backend may answer
BackendReport == Payload(JNum(87), JStr(<<"OUT">>), JUndefined, JStr(ToISOString(0)))
NoReply == <<"none">>
UploadReplies ==
  {<<"down">>,
   <<"json", BackendReport>>,
   <<"json", Payload(JNum(150), JStr(<<"OUT">>), JUndefined, JUndefined)>>,
   <<"sse", [frames |-> <<Frame("s1"), Frame("r1")>>, tail |-> <<>>]>>,
   <<"sse", [frames |-> <<Frame("s1")>>, tail |-> Frame("r1")]>>,
   <<"sse", [frames |-> <<Frame("s2"), Frame("s3"), Frame("e1")>>, tail |-> <<>>]>>,
   <<"sse", [frames |-> <<Frame("s1"), DataPrefix \o <<"{", "r1">>, Frame("r1")>>,
             tail |-> <<>>]>>}
ResultReplies == {<<"status">>, <<"json", BackendReport>>}
ListReplies == {<<"down">>, <<"json", JArr(<<BackendReport>>)>>}
StatsReplies ==
  {<<"status">>, <<"json", JObj([total_analyses |-> JNum(1), outDecisions |-> JNum(1)])>>}
DeleteReplies == {<<"down">>, <<"status">>, <<"ok">>}

RepliesFor(replies) == IF useMockApi THEN {NoReply} ELSE replies

\* the ids asked for: of the first analysis of the log, of the report of
\* the file, of the report of the backend
StoreIds ==
  {AnalysisId(U32(12345), <<"match_delivery_01.mp4">>), <<"r", "1">>}
    \cup {AnalysisId(generateFileHash(f, None).seed, f.name) : f \in StoreFiles}

SignIn ==
  /\ session = None
  /\ session' = Some(User)
  /\ UNCHANGED <<now, synthVars, streamVars, hashVars, healthVars, rngVars, concVars, useMockApi, storedAnalyses, rows, call>>

SignOut ==
  /\ session # None
  /\ session' = None
  /\ UNCHANGED <<now, synthVars, streamVars, hashVars, healthVars, rngVars, concVars, useMockApi, storedAnalyses, rows, call>>

\* a call by the upload page, whose callback does not throw, or by a caller
\* whose callback does; page is what the upload page shows afterwards
AnalyzeVideo(f, fault, stepFault) ==
  /\ call = None
  /\ fault = None \/ stepFault = None
  /\ \E reply \in RepliesFor(UploadReplies) :
       \E done \in {analyzeVideo(f, None, useMockApi, session, storedAnalyses, rows,
                                 fault, stepFault, reply, now)} :
         /\ storedAnalyses' = done.analyses
         /\ rows' = done.table
         /\ call' = Some([op |-> "analyzeVideo", arg |-> f, sess |-> session,
                          fault |-> fault, stepFault |-> stepFault, reply |-> reply,
                          promise |-> done.promise, steps |-> done.steps,
                          progress |-> done.progress, upserts |-> done.upserts,
                          page |-> IF stepFault = None THEN Some(handleFileSelect(done))
                                   ELSE None])
  /\ UNCHANGED <<now, synthVars, streamVars, hashVars, healthVars, rngVars, concVars, useMockApi, session>>

\* a call that reads: its promise is all it leaves
Reading(op, arg, fault, reply, promise) ==
  /\ call = None
  /\ call' = Some([op |-> op, arg |-> arg, sess |-> session, fault |-> fault,
                   reply |-> reply, promise |-> promise, steps |-> <<>>, progress |-> <<>>])
  /\ UNCHANGED <<now, synthVars, streamVars, hashVars, healthVars, rngVars, concVars, useMockApi, session,
                 storedAnalyses, rows>>

GetAnalysisResult(id, fault) ==
  \E reply \in RepliesFor(ResultReplies) :
    Reading("getAnalysisResult", id, fault, reply,
            getAnalysisResult(id, useMockApi, session, storedAnalyses, rows, fault, reply, now))

GetVideoHistory(fault) ==
  \E reply \in RepliesFor(ListReplies) :
    Reading("getVideoHistory", None, fault, reply,
            getVideoHistory(useMockApi, session, storedAnalyses, rows, fault, reply))

GetDashboardStats(fault) ==
  \E reply \in RepliesFor(StatsReplies) :
    Reading("getDashboardStats", None, fault, reply,
            getDashboardStats(useMockApi, session, storedAnalyses, rows, fault, reply))

\* limit: number = 3
GetRecentAnalyses(fault) ==
  \E reply \in RepliesFor(ListReplies) :
    Reading("getRecentAnalyses", None, fault, reply,
            getRecentAnalyses(3, useMockApi, session, storedAnalyses, rows, fault, reply, now))

DeleteAnalysis(id, fault) ==
  /\ call = None
  /\ \E reply \in RepliesFor(DeleteReplies) :
       \E done \in {deleteAnalysis(id, useMockApi, session, storedAnalyses, rows, fault, reply)} :
         /\ storedAnalyses' = done.analyses
         /\ rows' = done.table
         /\ call' = Some([op |-> "deleteAnalysis", arg |-> id, sess |-> session,
                          fault |-> fault, reply |-> reply,
                          promise |-> done.promise, steps |-> <<>>, progress |-> <<>>])
  /\ UNCHANGED <<now, synthVars, streamVars, hashVars, healthVars, rngVars, concVars, useMockApi, session>>

\* the caller takes the outcome of the promise; its next call may follow
Return ==
  /\ call # None
  /\ call' = None
  /\ UNCHANGED <<now, synthVars, streamVars, hashVars, healthVars, rngVars, concVars, useMockApi, session,
                 storedAnalyses, rows>>

InitStore ==
  /\ now = 0
  /\ SynthIdle
  /\ StreamIdle
  /\ HashIdle
  /\ useMockApi \in BOOLEAN
  /\ session \in {None, Some(User)}
  /\ storedAnalyses = InitialAnalyses(now)
  /\ rows = <<>>
  /\ call = None
  /\ HealthIdle
  /\ RngIdle
  /\ ConcIdle

NextStore ==
  \/ Tick
  \/ SignIn
  \/ SignOut
  \/ \E f \in StoreFiles, fault \in FaultsAt(AnalyzeSites), stepFault \in StepFaults :
       AnalyzeVideo(f, fault, stepFault)
  \/ \E id \in StoreIds, fault \in FaultsAt(ReadSites) : GetAnalysisResult(id, fault)
  \/ \E fault \in FaultsAt(ReadSites) : GetVideoHistory(fault)
  \/ \E fault \in FaultsAt(ReadSites) : GetDashboardStats(fault)
  \/ \E fault \in FaultsAt(ReadSites) : GetRecentAnalyses(fault)
  \/ \E id \in StoreIds, fault \in FaultsAt(DeleteSites) : DeleteAnalysis(id, fault)
  \/ Return

SpecStore == InitStore /\ [][NextStore]_vars

\* the last call was getAnalysisResult by a signed-in user, the lookups of
\* the user and of the row answered, and the table holds a row of the user
\* for the id
DurableHit ==
  /\ call # None
  /\ call[1].op = "getAnalysisResult"
  /\ call[1].sess # None
  /\ Outcome(call[1].fault, "isUserAuthenticated") = "ok"
  /\ Outcome(call[1].fault, "read.select") = "ok"
  /\ \E i \in DOMAIN rows :
       rows[i].user_id = call[1].sess[1] /\ rows[i].analysis_id = call[1].arg

\* a decision and criteria that agree: all four hold exactly when OUT
DecisionConsistent(decision, criteria) == (decision = "OUT") <=> AllCriteria([criteria |-> criteria])

\* C7: a read by id that finds a row returns the values of the row for the
\* fields a row carries, whatever the log holds for the id; criteria, steps,
\* bounce point, metrics and the three analyses are those of the report of
\* the log with the id, and without one they are the defaults, the criteria
\* agreeing with the decision
C7_DurableFieldsWin ==
  DurableHit =>
    /\ call[1].promise[1] = "resolved"
    /\ call[1].promise[2] # None
    /\ LET got == call[1].promise[2][1]
           known == {i \in DOMAIN storedAnalyses : storedAnalyses[i].id = call[1].arg}
       IN  /\ \A i \in DOMAIN rows :
                rows[i].user_id = call[1].sess[1] /\ rows[i].analysis_id = call[1].arg =>
                  /\ got.id = rows[i].analysis_id
                  /\ got.videoName = rows[i].video_name
                  /\ got.decision = rows[i].decision
                  /\ got.confidence = rows[i].confidence
                  /\ got.trajectory = rows[i].trajectory
                  /\ got.impactPoint = rows[i].impact_point
                  /\ got.predictedWicketHit = rows[i].wicket_point
                  /\ got.createdAt = Some(rows[i].analysis_timestamp)
                  /\ got.isUmpiresCall = rows[i].umpires_call
                  /\ got.keyFrames = rows[i].key_frames
           /\ \A i \in known :
                /\ got.criteria = storedAnalyses[i].criteria
                /\ got.steps = storedAnalyses[i].steps
                /\ got.bouncePoint = storedAnalyses[i].bouncePoint
                /\ got.ballMetrics = storedAnalyses[i].ballMetrics
                /\ got.pitchAnalysis = storedAnalyses[i].pitchAnalysis
                /\ got.impactAnalysis = storedAnalyses[i].impactAnalysis
                /\ got.wicketPrediction = storedAnalyses[i].wicketPrediction
           /\ known = {} =>
                /\ DecisionConsistent(got.decision, got.criteria)
                /\ got.criteria.pitchedInLine /\ got.criteria.impactInLine
                /\ got.criteria.legBeforeBat
                /\ \A k \in DOMAIN got.steps : got.steps[k].status = "completed"
                /\ got.bouncePoint = [x |-> Const(130), y |-> Const(50)]
                /\ got.ballMetrics = None /\ got.pitchAnalysis = None
                /\ got.impactAnalysis = None /\ got.wicketPrediction = None

\* a row is found while the log holds a report with the id whose confidence
\* and creation time are not those of the row
C7_Witness ==
  /\ DurableHit
  /\ \E i \in DOMAIN storedAnalyses :
       /\ storedAnalyses[i].id = call[1].arg
       /\ storedAnalyses[i].confidence # call[1].promise[2][1].confidence
       /\ storedAnalyses[i].createdAt # call[1].promise[2][1].createdAt

C7_WitnessNoLogEntry ==
  /\ DurableHit
  /\ \A i \in DOMAIN storedAnalyses : storedAnalyses[i].id # call[1].arg

\* C10: no call of a user-facing operation is rejected over a failure of
\* the durable store: a call is rejected only when it is an analysis whose
\* callback throws, or in real mode whose upload to the backend fails
C10_PersistenceIsolated ==
  call # None /\ call[1].promise[1] = "rejected" =>
    /\ call[1].op = "analyzeVideo"
    /\ \/ call[1].stepFault # None
       \/ /\ ~useMockApi
          /\ uploadToBackend(call[1].reply, None, now).promise[1] = "rejected"

\* the calls other than analyzeVideo are never rejected, whatever fails
C10_ReadsAndDeleteIsolated ==
  call # None /\ call[1].op # "analyzeVideo" => call[1].promise[1] = "resolved"

\* the last call was getAnalysisResult and no row answered it: nobody is
\* signed in, a lookup failed, or the table holds no row of the user for the id
DurableMiss ==
  /\ call # None
  /\ call[1].op = "getAnalysisResult"
  /\ ~DurableHit

\* C11: a read by id that no row answers returns the report of the log with
\* the id when the log holds one, and goes to the backend (real mode) only
\* when the log holds none
C11_LogBeforeBackend ==
  DurableMiss =>
    LET inLog == {i \in DOMAIN storedAnalyses : storedAnalyses[i].id = call[1].arg}
    IN  /\ \A i \in inLog : call[1].promise = Resolved(Some(storedAnalyses[i]))
        /\ inLog = {} /\ useMockApi => call[1].promise = Resolved(None)
        /\ inLog = {} /\ ~useMockApi =>
             /\ call[1].promise[1] = "resolved"
             /\ call[1].promise[2] # None <=> IsJson(call[1].reply)

\* what holds of the code: the log answers in mock mode and the backend in
\* real mode, whatever the log holds
C11_LogInMockModeOnly ==
  DurableMiss =>
    /\ useMockApi => call[1].promise = Resolved(Find(storedAnalyses, call[1].arg))
    /\ ~useMockApi =>
         /\ call[1].promise[1] = "resolved"
         /\ call[1].promise[2] # None <=> IsJson(call[1].reply)

\* the last call was a list or aggregate read and the durable store gave
\* it nothing: nobody is signed in, a lookup failed, or the table holds no
\* row of the user
DurableEmpty ==
  /\ call # None
  /\ call[1].op \in {"getVideoHistory", "getDashboardStats", "getRecentAnalyses"}
  /\ \/ call[1].sess = None
     \/ Outcome(call[1].fault, "isUserAuthenticated") # "ok"
     \/ Outcome(call[1].fault, "read.select") # "ok"
     \/ Visible(rows, call[1].sess) = <<>>

\* the answer of the last call is made from the log
AnsweredFromLog ==
  LET answer == call[1].promise[2]
  IN  /\ call[1].promise[1] = "resolved"
      /\ call[1].op = "getVideoHistory" =>
           /\ Len(answer) = Len(storedAnalyses)
           /\ \A i \in DOMAIN answer : answer[i].id = storedAnalyses[i].id
      /\ call[1].op = "getDashboardStats" => answer.totalAnalyses = Len(storedAnalyses)
      /\ call[1].op = "getRecentAnalyses" => answer = FirstOf(storedAnalyses, 3)

\* C12: a list or aggregate read the durable store gives nothing to is
\* answered from the log when the log holds a report, the backend coming
\* after the log
C12_LogBeforeBackend ==
  DurableEmpty /\ storedAnalyses # <<>> => AnsweredFromLog

\* what holds of the code: the log answers in mock mode only
C12_LogInMockModeOnly ==
  DurableEmpty /\ useMockApi => AnsweredFromLog

\* C13: deleteAnalysis deletes the row of a signed-in caller unless the
\* delete fails, removes the report from the log, and returns true when the
\* report was in the log or in the table or the durable delete was attempted
C13_DeleteRemovesAndSucceeds ==
  [][(call = None /\ call' # None /\ call'[1].op = "deleteAnalysis") =>
       LET id == call'[1].arg
           inLog == \E i \in DOMAIN storedAnalyses : storedAnalyses[i].id = id
           inTable == RowIndex(rows, session, id) # 0
           attempted == /\ session # None
                        /\ Outcome(call'[1].fault, "isUserAuthenticated") = "ok"
       IN  /\ attempted /\ Outcome(call'[1].fault, "delete") = "ok" =>
                RowIndex(rows', session, id) = 0
           /\ \A i \in DOMAIN storedAnalyses' : storedAnalyses'[i].id # id
           /\ (inLog \/ inTable \/ attempted) => call'[1].promise = Resolved(TRUE)]_vars

\* what holds of the code: the claim in mock mode
C13_DeleteInMockMode ==
  [][(call = None /\ call' # None /\ call'[1].op = "deleteAnalysis" /\ useMockApi) =>
       /\ \A i \in DOMAIN storedAnalyses' : storedAnalyses'[i].id # call'[1].arg
       /\ call'[1].promise = Resolved(TRUE)]_vars

\* C14: a call of analyzeVideo that is rejected leaves the log and the
\* table as they were, in mock and in real mode, whether the settings
\* fetch, the callback, the upload, the stream or the parsing failed
C14_FailedAnalysisLeavesNothing ==
  [][(/\ call = None
      /\ call' # None
      /\ call'[1].op = "analyzeVideo"
      /\ call'[1].promise[1] = "rejected") =>
       storedAnalyses' = storedAnalyses /\ rows' = rows]_vars

\* a new mock analysis by a signed-in user fails in the callback, steps
\* having been handed over
C14_Witness ==
  /\ call # None
  /\ call[1].op = "analyzeVideo"
  /\ call[1].promise[1] = "rejected"
  /\ useMockApi
  /\ call[1].sess # None
  /\ call[1].steps # <<>>
  /\ \A i \in DOMAIN storedAnalyses :
       storedAnalyses[i].id # AnalysisId(generateFileHash(call[1].arg, None).seed,
                                         call[1].arg.name)

\* the last call was an analysis started by the upload page, and it failed
UploadFailed ==
  /\ call # None
  /\ call[1].op = "analyzeVideo"
  /\ call[1].page # None
  /\ call[1].promise[1] = "rejected"

\* C15: once an analysis started by the upload page has failed, the steps
\* that were in processing are in error, no step is in processing, and the
\* steps that were pending or completed are as they were
C15_ProcessingMarkedFailed ==
  UploadFailed =>
    LET before == StepsShown(PageSteps, call[1].steps)
        after == call[1].page[1].steps
    IN  /\ DOMAIN after = DOMAIN before
        /\ \A i \in DOMAIN before :
             /\ after[i].id = before[i].id
             /\ before[i].status = "processing" => after[i].status = "error"
             /\ after[i].status # "processing"
             /\ before[i].status \in {"pending", "completed"} =>
                  after[i].status = before[i].status

\* the failure came while one step was completed, one in processing and
\* the others pending
C15_Witness ==
  /\ UploadFailed
  /\ \E i, j, k \in DOMAIN call[1].page[1].steps :
       /\ call[1].page[1].steps[i].status = "completed"
       /\ call[1].page[1].steps[j].status = "error"
       /\ call[1].page[1].steps[k].status = "pending"

\* the last call was an analysis that returned a report to a signed-in
\* user, every lookup of the durable store answering
ReportReturned ==
  /\ call # None
  /\ call[1].op = "analyzeVideo"
  /\ call[1].promise[1] = "resolved"
  /\ call[1].sess # None
  /\ call[1].fault = None

\* C18: an analysis that returns a report to a signed-in user has called
\* saveAnalysisToDb with it before returning, whether the report was
\* synthesized, streamed or found in the log
C18_WriteThrough == ReportReturned => call[1].upserts >= 1

\* what holds of the code: the upsert is attempted unless the report was
\* found in the log
C18_WriteThroughUnlessKnown ==
  ReportReturned =>
    \/ call[1].upserts = 1
    \/ /\ useMockApi
       /\ call[1].upserts = 0
       /\ \A k \in DOMAIN call[1].steps : call[1].steps[k].data = None

\* ------------------------------------------------------------------------
\* checkBackendHealth, called by useBackendStatus (hooks/useBackendStatus.ts):
\* one check at a time.  The time a request has been out is counted in
\* steps of HealthStepMs.
\* ------------------------------------------------------------------------

\* AbortSignal.timeout(5000)
HealthTimeoutMs == 5000

\* the time between two looks at a request that is out
HealthStepMs == 500

\* the retries of the hook followed
MaxRetries == 3

\* how the fetch of a check ends: the backend answers ok or with another
\* status, the request fails, or the signal aborts it
Fetched == {"ok", "status", "down", "timeout"}

\* the promise of checkBackendHealth: true in mock mode; response.ok when
\* the backend answers; false from the catch when fetch throws
checkBackendHealth_uncaught(mockApi, fetched) ==
  IF mockApi THEN Resolved(TRUE)
  ELSE IF fetched \in {"ok", "status"} THEN Resolved(fetched = "ok")
  ELSE Rejected(<<fetched>>)
checkBackendHealth(mockApi, fetched) ==
  IF mockApi THEN Resolved(TRUE)
  ELSE IF fetched \in {"ok", "status"} THEN Resolved(fetched = "ok")
  ELSE Resolved(FALSE)

\* the state of the hook once the promise of the check has settled
checkStatus(prev, promise, isRetry) ==
  IF promise[1] = "resolved"
  THEN [isOnline |-> promise[2], isChecking |-> FALSE,
        retryCount |-> IF isRetry /\ ~promise[2] THEN prev.retryCount + 1 ELSE 0]
  ELSE [isOnline |-> FALSE, isChecking |-> FALSE,
        retryCount |-> IF isRetry THEN prev.retryCount + 1 ELSE 0]

\* the effect that retries: once the state has changed its cleanup clears
\* the timer, and the timer is set anew when the state is offline and no
\* check is going on (autoRetryInterval = 30000 > 0)
AutoRetryTimer_whileChecking(status) == ~status.isOnline
AutoRetryTimer(status) == ~status.isOnline /\ ~status.isChecking

\* the button that retries is rendered
ButtonShown == ~backendStatus.isOnline /\ ~backendStatus.isChecking

\* the oldest check in flight has ended with fetched
Settled(fetched) ==
  \E promise \in {checkBackendHealth(useMockApi, fetched)} :
    \E status \in {checkStatus(backendStatus, promise, health[1].isRetry)} :
      /\ health' = Tail(health)
      /\ healthOut' = Some([fetched |-> fetched, promise |-> promise])
      /\ backendStatus' = status
      /\ retryTimer' = AutoRetryTimer(status)

\* checkStatus(isRetry) up to its await.  In mock mode the check returns
\* without a request
CheckStatus(isRetry) ==
  /\ backendStatus.retryCount < MaxRetries
  /\ IF useMockApi
     THEN \E promise \in {checkBackendHealth(TRUE, "ok")} :
            \E status \in {checkStatus(backendStatus, promise, isRetry)} :
              /\ health' = health
              /\ healthOut' = Some([fetched |-> "mock", promise |-> promise])
              /\ backendStatus' = status
              /\ retryTimer' = AutoRetryTimer(status)
     ELSE \E status \in {[backendStatus EXCEPT !.isChecking = TRUE]} :
            /\ health' = Append(health, [isRetry |-> isRetry, elapsed |-> 0, aborted |-> FALSE])
            /\ healthOut' = healthOut
            /\ backendStatus' = status
            /\ retryTimer' = AutoRetryTimer(status)
  /\ UNCHANGED <<now, synthVars, streamVars, hashVars, storeVars, rngVars, concVars>>

\* the effect of the mount: checkStatus()
InitialCheck ==
  /\ health = None
  /\ healthOut = None
  /\ CheckStatus(FALSE)

\* the timer of the auto-retry effect fires: checkStatus(true)
AutoRetry ==
  /\ retryTimer
  /\ CheckStatus(TRUE)

\* the button is clicked: manualRetry, checkStatus(true)
ManualRetry ==
  /\ healthOut # None
  /\ ButtonShown
  /\ CheckStatus(TRUE)

\* time passes while the request is out
Elapse ==
  /\ health # None
  /\ ~health[1].aborted
  /\ health[1].elapsed < HealthTimeoutMs
  /\ health' = [health EXCEPT ![1].elapsed =
                   IF @ + HealthStepMs < HealthTimeoutMs
                   THEN @ + HealthStepMs ELSE HealthTimeoutMs]
  /\ UNCHANGED <<now, synthVars, streamVars, hashVars, storeVars, rngVars, concVars, healthOut, backendStatus, retryTimer>>

\* the backend answers, or the request fails, before the signal aborts
HealthReply(fetched) ==
  /\ health # None
  /\ ~health[1].aborted
  /\ Settled(fetched)
  /\ UNCHANGED <<now, synthVars, streamVars, hashVars, storeVars, rngVars, concVars>>

\* the timer of AbortSignal.timeout fires: the signal is aborted
TimeoutFires ==
  /\ health # None
  /\ ~health[1].aborted
  /\ health[1].elapsed >= HealthTimeoutMs
  /\ health' = [health EXCEPT ![1].aborted = TRUE]
  /\ UNCHANGED <<now, synthVars, streamVars, hashVars, storeVars, rngVars, concVars, healthOut, backendStatus, retryTimer>>

\* fetch rejects because its signal is aborted
FetchAborted ==
  /\ health # None
  /\ health[1].aborted
  /\ Settled("timeout")
  /\ UNCHANGED <<now, synthVars, streamVars, hashVars, storeVars, rngVars, concVars>>

InitHealth ==
  /\ now = 0
  /\ SynthIdle
  /\ StreamIdle
  /\ HashIdle
  /\ useMockApi \in BOOLEAN
  /\ session = None
  /\ storedAnalyses = <<>>
  /\ rows = <<>>
  /\ call = None
  /\ HealthIdle
  /\ RngIdle
  /\ ConcIdle

NextHealth ==
  \/ InitialCheck
  \/ AutoRetry
  \/ ManualRetry
  \/ Elapse
  \/ \E fetched \in {"ok", "status", "down"} : HealthReply(fetched)
  \/ TimeoutFires
  \/ FetchAborted

\* time passes, timers fire and a rejected fetch is taken up
SpecHealth ==
  /\ InitHealth
  /\ [][NextHealth]_vars
  /\ WF_vars(AutoRetry)
  /\ WF_vars(Elapse)
  /\ WF_vars(TimeoutFires)
  /\ WF_vars(FetchAborted)

C19_HealthCheckSettles ==
  /\ [](healthOut # None =>
          /\ healthOut[1].promise[1] = "resolved"
          /\ healthOut[1].promise[2] \in BOOLEAN
          /\ healthOut[1].fetched \in {"down", "timeout", "status"} =>
               healthOut[1].promise[2] = FALSE
          /\ healthOut[1].promise[2] = TRUE =>
               \/ healthOut[1].fetched = "ok"
               \/ healthOut[1].fetched = "mock" /\ useMockApi)
  /\ [](health # None => health[1].elapsed <= HealthTimeoutMs)
  /\ (health # None) ~> (health = None)
  /\ (health # None /\ health[1].aborted) ~>
       (healthOut # None /\ healthOut[1].fetched = "timeout")

\* a retry has been aborted by the timeout and the hook says offline
C19_Witness ==
  /\ healthOut # None
  /\ healthOut[1].fetched = "timeout"
  /\ healthOut[1].promise = Resolved(FALSE)
  /\ ~backendStatus.isOnline
  /\ backendStatus.retryCount > 0

\* ------------------------------------------------------------------------
\* SeededRandom on its own: seeds drawn from a bounded set, next() called
\* up to MaxCalls times
\* ------------------------------------------------------------------------

MaxCalls == 16

\* small seeds, the seeds about 2^53 / 1103515245 (where the product stops
\* being an integer a double holds), the one seed whose exact successor is
\* 0x7fffffff, and the greatest
RngSeeds == {U32(n) : n \in {0, 1, 12345, 8162278, 8162280, 230538014, 2147483647}}

\* new SeededRandom(seed)
NewSeededRandom(seed) ==
  /\ lcg = None
  /\ lcg' = Some([seed |-> seed, state |-> seed, calls |-> 0])
  /\ UNCHANGED <<now, synthVars, streamVars, hashVars, storeVars, healthVars, concVars>>

\* next(): this.seed moves on; the value returned is this.seed / 0x7fffffff
CallNext ==
  /\ lcg # None
  /\ lcg[1].calls < MaxCalls
  /\ lcg' = Some([lcg[1] EXCEPT !.state = SeededRandom_next(@), !.calls = @ + 1])
  /\ UNCHANGED <<now, synthVars, streamVars, hashVars, storeVars, healthVars, concVars>>

InitRng == InitSynth

NextRng ==
  \/ \E seed \in RngSeeds : NewSeededRandom(seed)
  \/ CallNext

SpecRng == InitRng /\ [][NextRng]_vars

\* (state * 1103515245 + 12345) mod 2^31 in integers
LcgExact(state) ==
  LET prod == MulLimbs(state, LcgMultiplier)
      sum  == Carry(<<prod[1] + LcgIncrement, prod[2], prod[3], prod[4]>>)
  IN  <<sum[2] % 2^15, sum[1]>>

\* the numerator of the value next() returned last
Returned31(state) == state[1] * Limb + state[2]

\* C21: every call of next() sets the state to
\* (state * 1103515245 + 12345) mod 2^31 computed exactly and returns a
\* value that is at least 0 and less than 1
C21_NextExactBelowOne ==
  [][lcg # None /\ lcg' # None /\ lcg'[1].calls = lcg[1].calls + 1 =>
       /\ lcg'[1].state = LcgExact(lcg[1].state)
       /\ Returned31(lcg'[1].state) >= 0
       /\ Returned31(lcg'[1].state) < Modulus]_vars

\* what holds of next(): the value returned is at least 0 and less than 1
C21_NextBelowOne ==
  lcg # None =>
    /\ Returned31(lcg[1].state) >= 0
    /\ lcg[1].calls > 0 => Returned31(lcg[1].state) < Modulus

\* lo <= x <= hi
NumBetween(x, lo, hi) == ~NumLessThan(x, lo, 1) /\ ~NumGreaterThan(x, hi, 1)

\* the range of speeds of the category drawn: the spin range for offspin
\* and legspin, the pace range otherwise
IsSpinCategory(ballType) == ballType \in {"offspin", "legspin"}
RangeDrawn(settings, ballType) ==
  IF IsSpinCategory(ballType) THEN SpeedRange(settings).spin ELSE SpeedRange(settings).pace

\* the speeds of the report lie in [min + 10, top] and [min - 5, max - 5],
\* and the spin rate is there, within 1500..3000, for the spin categories only
SpeedsWithin(extra) ==
  synthOut # None =>
    LET metrics == synthOut[1].ballMetrics[1]
        range == RangeDrawn(synthArgs[1].settings, metrics.ballType)
    IN  /\ NumBetween(metrics.releaseSpeed, range[1] + 10, range[2] + extra)
        /\ NumBetween(metrics.impactSpeed, range[1] - 5, range[2] - 5)
        /\ metrics.spinRate # None <=> IsSpinCategory(metrics.ballType)
        /\ metrics.spinRate # None => NumBetween(metrics.spinRate[1], 1500, 3000)

\* C24: releaseSpeed lies in [min + 10, max] and impactSpeed in
\* [min - 5, max - 5], for the range of the category drawn, and spinRate is
\* populated (1500..3000) exactly for the spin categories
C24_SpeedsInRange == SpeedsWithin(0)

\* what holds: releaseSpeed lies in [min + 10, max + 10]
C24_ReleaseUpToMaxPlus10 == SpeedsWithin(10)

\* ------------------------------------------------------------------------
\* The synthesizer under configurations whose surface or ball type is
\* unknown or missing
\* ------------------------------------------------------------------------

\* a value that the tables do not know, and the key that a missing field is
\* looked up with
UnknownValues == {"grass", "undefined"}

ConfigSettings ==
  {MOCK_DEFAULTS, [MOCK_DEFAULTS EXCEPT !.pitch_surface = "turf"]}
  \cup {[MOCK_DEFAULTS EXCEPT !.pitch_surface = u] : u \in UnknownValues}
  \cup {[MOCK_DEFAULTS EXCEPT !.ball_type = u] : u \in UnknownValues}

ConfigArgs ==
  {[videoName |-> <<"a", " ", "b">>, seed |-> s, settings |-> c] :
     s \in {U32(12345), U32(8)}, c \in ConfigSettings}

InitConfig == InitSynth

NextConfig ==
  \/ \E a \in ConfigArgs : Synthesize(a)
  \/ Remember

SpecConfig == InitConfig /\ [][NextConfig]_vars

KnownConfig(settings) ==
  /\ settings.pitch_surface \in DOMAIN SURFACE_BOUNCE
  /\ settings.ball_type \in DOMAIN BALL_SPEED_RANGES

\* the configuration with surface and ball put in place of what is unknown
Replaced(settings, surface, ball) ==
  [settings EXCEPT
     !.pitch_surface = IF @ \in DOMAIN SURFACE_BOUNCE THEN @ ELSE surface,
     !.ball_type = IF @ \in DOMAIN BALL_SPEED_RANGES THEN @ ELSE ball]

\* the last call had an unknown or missing surface or ball type, and the
\* call kept had the same name and seed with surface and ball in their place
ComparedWith(surface, ball) ==
  /\ synthArgs # None
  /\ synthRef.args # None
  /\ ~KnownConfig(synthArgs[1].settings)
  /\ synthRef.args[1] = [synthArgs[1] EXCEPT !.settings = Replaced(@, surface, ball)]

\* C23: with a surface or a ball type that is missing or unknown the
\* synthesizer returns the report it returns for concrete and tennis with
\* the same seed
C23_UnknownAsConcreteTennis ==
  ComparedWith("concrete", "tennis") => synthOut # None /\ synthOut = synthRef.out

\* what holds: the report is the one for turf (bounce multiplier 1.0) and
\* tennis
C23_UnknownAsTurfTennis ==
  ComparedWith("turf", "tennis") => synthOut # None /\ synthOut = synthRef.out

\* ------------------------------------------------------------------------
\* saveAnalysisToDb step by step: callers run between the awaits of one
\* another.  No row is deleted here, so the primary key of a row is taken
\* to be its place counted from the oldest row.
\* ------------------------------------------------------------------------

Savers == {1, 2}

\* the calls each caller makes
MaxSaves == 2

\* a report, the same report with another decision, and another report
SaveReports ==
  LET report == parseAnalysisResult(BackendReport, 0)
  IN  {report, [report EXCEPT !.decision = "NOT_OUT"], [report EXCEPT !.id = <<"r", "2">>]}

NotSaving ==
  [pc |-> "idle", dbData |-> None, existing |-> 0, returned |-> None, lost |-> FALSE, calls |-> 0]

\* the row of table with the key (user_id, analysis_id) of dbData, if any
HasKey(table, dbData) ==
  \E i \in DOMAIN table :
    table[i].user_id = dbData.user_id /\ table[i].analysis_id = dbData.analysis_id

\* .insert(dbData): the table afterwards and whether the statement
\* answered with an error; CHECK and UNIQUE(user_id, analysis_id) reject
Insert_unconstrained(table, dbData) ==
  Bind(Stored(dbData), LAMBDA stored :
    IF stored = None THEN [table |-> table, error |-> TRUE]
    ELSE [table |-> <<stored[1]>> \o table, error |-> FALSE])
Insert(table, dbData) ==
  Bind(Stored(dbData), LAMBDA stored :
    IF stored = None \/ HasKey(table, dbData) THEN [table |-> table, error |-> TRUE]
    ELSE [table |-> <<stored[1]>> \o table, error |-> FALSE])

\* .update(dbData).eq('id', existing.id)
Update(table, id, dbData) ==
  Bind(Stored(dbData), LAMBDA stored :
    IF stored = None THEN [table |-> table, error |-> TRUE]
    ELSE [table |-> [table EXCEPT ![Len(table) - id + 1] = stored[1]], error |-> FALSE])

\* the call up to its second await: getUser, toDbFormat
SaveCalled(p, result) ==
  /\ saves[p].pc = "idle"
  /\ saves[p].calls < MaxSaves
  /\ \E dbData \in {IF session = None THEN Thrown ELSE toDbFormat(result, session[1])} :
       saves' = [saves EXCEPT ![p] =
         IF dbData = Thrown
         THEN [NotSaving EXCEPT !.returned = Some(FALSE), !.calls = saves[p].calls + 1]
         ELSE [NotSaving EXCEPT !.pc = "select", !.dbData = Some(dbData[2]),
                                !.calls = saves[p].calls + 1]]
  /\ UNCHANGED <<now, synthVars, streamVars, hashVars, storeVars, healthVars, rngVars, flights>>

\* .select('id') ... .maybeSingle() answers
SaveSelected(p) ==
  /\ saves[p].pc = "select"
  /\ \E i \in {RowIndex(rows, Some(saves[p].dbData[1].user_id), saves[p].dbData[1].analysis_id)} :
       saves' = [saves EXCEPT ![p].pc = "write",
                              ![p].existing = IF i = 0 THEN 0 ELSE Len(rows) - i + 1]
  /\ UNCHANGED <<now, synthVars, streamVars, hashVars, storeVars, healthVars, rngVars, flights>>

\* the update or the insert answers, and the call returns
SaveWritten(p) ==
  /\ saves[p].pc = "write"
  /\ \E write \in {IF saves[p].existing # 0
                     THEN Update(rows, saves[p].existing, saves[p].dbData[1])
                     ELSE Insert(rows, saves[p].dbData[1])} :
       /\ rows' = write.table
       /\ saves' = [saves EXCEPT ![p].pc = "idle",
                                 ![p].returned = Some(~write.error),
                                 ![p].lost = write.error /\ HasKey(rows, saves[p].dbData[1])]
  /\ UNCHANGED <<now, synthVars, streamVars, hashVars, healthVars, rngVars, flights,
                  useMockApi, session, storedAnalyses, call>>

InitSave ==
  /\ now = 0
  /\ SynthIdle
  /\ StreamIdle
  /\ HashIdle
  /\ useMockApi = TRUE
  /\ session \in {None, Some(User)}
  /\ storedAnalyses = <<>>
  /\ rows = <<>>
  /\ call = None
  /\ HealthIdle
  /\ RngIdle
  /\ saves = [p \in Savers |-> NotSaving]
  /\ flights = <<>>

NextSave ==
  \/ \E p \in Savers, result \in SaveReports : SaveCalled(p, result)
  \/ \E p \in Savers : SaveSelected(p)
  \/ \E p \in Savers : SaveWritten(p)

SpecSave == InitSave /\ [][NextSave]_vars

\* C25: whatever the interleaving of the calls of saveAnalysisToDb, the
\* table holds at most one row for each (owner, report id); a save for a key
\* that the call found updates that row and adds none; an insert that finds
\* the key taken by a concurrent save adds no row and the call returns false
C25_OneRowPerKey ==
  /\ [](\A i, j \in DOMAIN rows :
          rows[i].user_id = rows[j].user_id /\ rows[i].analysis_id = rows[j].analysis_id
            => i = j)
  /\ [][\A p \in Savers :
          saves[p].pc = "write" /\ saves'[p].pc = "idle" =>
            /\ saves'[p].returned # None
            /\ saves[p].existing # 0 =>
                 /\ Len(rows') = Len(rows)
                 /\ saves'[p].returned = Some(TRUE)
                 /\ HasKey(rows', saves[p].dbData[1])
            /\ saves[p].existing = 0 /\ HasKey(rows, saves[p].dbData[1]) =>
                 /\ rows' = rows
                 /\ saves'[p].returned = Some(FALSE)
            /\ saves[p].existing = 0 /\ ~HasKey(rows, saves[p].dbData[1]) =>
                 /\ Len(rows') = Len(rows) + 1
                 /\ saves'[p].returned = Some(TRUE)]_vars

\* two callers saved the same report, both found no row: one insert was
\* taken, the other rejected
C25_Witness ==
  /\ Len(rows) = 1
  /\ \E p, q \in Savers :
       /\ saves[p].lost
       /\ saves[p].returned = Some(FALSE)
       /\ saves[q].returned = Some(TRUE)

\* ------------------------------------------------------------------------
\* The mock implementation of analyzeVideo step by step: callers run
\* between the awaits of one another.  Nobody is signed in, so no call
\* saves to the table.
\* ------------------------------------------------------------------------

Callers == {1, 2}

\* the calls each caller makes
MaxAnalyses == 2

\* a file, and a file of the same content whose name gives the same id
FlightFiles ==
  StoreFiles \cup {[f EXCEPT !.name = <<"a", "_", "b">>] : f \in StoreFiles}

NotAnalyzing ==
  [pc |-> "idle", file |-> None, seed |-> None, existing |-> None, returned |-> None,
   calls |-> 0]

\* the call up to await generateFileHash(file, onFileReadProgress)
AnalyzeCalled(p, f) ==
  /\ flights[p].pc = "idle"
  /\ flights[p].calls < MaxAnalyses
  /\ flights' = [flights EXCEPT ![p] =
       [NotAnalyzing EXCEPT !.pc = "hash", !.file = Some(f), !.calls = flights[p].calls + 1]]
  /\ UNCHANGED <<now, synthVars, streamVars, hashVars, storeVars, healthVars, rngVars, saves>>

\* the seed is there: storedAnalyses.find, and the loop over the steps up
\* to its first await delay(...)
AnalyzeHashed(p) ==
  /\ flights[p].pc = "hash"
  /\ \E seed \in {generateFileHash(flights[p].file[1], None).seed} :
       flights' = [flights EXCEPT
         ![p].pc = "steps",
         ![p].seed = Some(seed),
         ![p].existing = Find(storedAnalyses, AnalysisId(seed, flights[p].file[1].name))]
  /\ UNCHANGED <<now, synthVars, streamVars, hashVars, storeVars, healthVars, rngVars, saves>>

\* the last delay is over: the existing analysis is returned, or the
\* report is synthesized, put at the head of the log and returned
AnalyzeFinished(p) ==
  /\ flights[p].pc = "steps"
  /\ IF flights[p].existing # None
     THEN /\ flights' = [flights EXCEPT ![p].pc = "idle", ![p].returned = flights[p].existing]
          /\ storedAnalyses' = storedAnalyses
     ELSE \E result \in {[generateAnalysisResult(flights[p].file[1].name, flights[p].seed[1],
                                                  getSettings(session, None)[2], Some(now))
                             EXCEPT !.steps = FinishedSteps(now)]} :
            /\ flights' = [flights EXCEPT ![p].pc = "idle", ![p].returned = Some(result)]
            /\ storedAnalyses' = LogAfter(storedAnalyses, result, FALSE)
  /\ UNCHANGED <<now, synthVars, streamVars, hashVars, healthVars, rngVars, saves,
                  useMockApi, session, rows, call>>

InitFlight ==
  /\ now = 0
  /\ SynthIdle
  /\ StreamIdle
  /\ HashIdle
  /\ useMockApi = TRUE
  /\ session = None
  /\ storedAnalyses = InitialAnalyses(now)
  /\ rows = <<>>
  /\ call = None
  /\ HealthIdle
  /\ RngIdle
  /\ saves = <<>>
  /\ flights = [p \in Callers |-> NotAnalyzing]

NextFlight ==
  \/ \E p \in Callers, f \in FlightFiles : AnalyzeCalled(p, f)
  \/ \E p \in Callers : AnalyzeHashed(p)
  \/ \E p \in Callers : AnalyzeFinished(p)

SpecFlight == InitFlight /\ [][NextFlight]_vars

\* the report with this id is in the log
Known(id) == \E i \in DOMAIN storedAnalyses : storedAnalyses[i].id = id

\* C27: whatever the interleaving of the calls of analyzeVideo, the log
\* never holds two reports with the same id, and the analysis of a file
\* that is known returns the report of the log without growing the log
C27_NoTwoReportsWithOneId ==
  /\ [](\A i, j \in DOMAIN storedAnalyses :
          storedAnalyses[i].id = storedAnalyses[j].id => i = j)
  /\ [][\A p \in Callers :
          /\ flights[p].pc = "steps"
          /\ flights'[p].pc = "idle"
          /\ Known(AnalysisId(flights[p].seed[1], flights[p].file[1].name))
          => /\ storedAnalyses' = storedAnalyses
             /\ flights'[p].returned =
                  Find(storedAnalyses, AnalysisId(flights[p].seed[1], flights[p].file[1].name))]_vars

\* what holds: a call that found the report in the log returns it and
\* leaves the log as it is, and the log grows by one report at a time
C27_KnownWhenLookedUp ==
  [][\A p \in Callers :
       flights[p].pc = "steps" /\ flights'[p].pc = "idle" =>
         IF flights[p].existing # None
         THEN storedAnalyses' = storedAnalyses /\ flights'[p].returned = flights[p].existing
         ELSE Len(storedAnalyses') = Len(storedAnalyses) + 1]_vars

\* ------------------------------------------------------------------------
\* Reads after a delete (the log and the table, one call at a time)
\* ------------------------------------------------------------------------

\* deleteAnalysis(id) has just returned true in mock mode
DeletedNow(id) ==
  /\ useMockApi
  /\ call = None
  /\ call' # None
  /\ call'[1].op = "deleteAnalysis"
  /\ call'[1].arg = id
  /\ call'[1].promise = Resolved(TRUE)

\* what getAnalysisResult(id) and getVideoHistory() answer a caller from
\* the log and the table as they are after the step, no call failing:
\* null, and no entry with the id
GoneFor(id, sess) ==
  /\ getAnalysisResult(id, TRUE, sess, storedAnalyses', rows', None, NoReply, now)
       = Resolved(None)
  /\ LET history == getVideoHistory(TRUE, sess, storedAnalyses', rows', None, NoReply)
     IN  \A i \in DOMAIN history[2] : history[2][i].id # id

\* C28: in mock mode, once deleteAnalysis(id) has returned true,
\* getAnalysisResult(id) returns null and getVideoHistory() has no entry
\* with the id, for a caller signed in and for one who is not (the log and
\* the table change afterwards only by an analysis or another delete)
C28_DeletedIsGone ==
  [][\A id \in StoreIds : DeletedNow(id) =>
       \A sess \in {None, Some(User)} : GoneFor(id, sess)]_vars

\* what holds: the report is gone for every caller unless a row of the
\* table is left with the id
C28_GoneUnlessRowLeft ==
  [][\A id \in StoreIds :
       DeletedNow(id) /\ (\A i \in DOMAIN rows' : rows'[i].analysis_id # id) =>
         \A sess \in {None, Some(User)} : GoneFor(id, sess)]_vars

\* getDashboardStats() has answered in mock mode, no call of the store
\* having failed
StatsAnswered ==
  /\ useMockApi
  /\ call # None
  /\ call[1].op = "getDashboardStats"
  /\ call[1].fault = None

\* C29: in mock mode, with no store errors and no writes in between,
\* totalAnalyses of getDashboardStats equals the number of entries that
\* getVideoHistory returns, and is the sum of outDecisions and
\* notOutDecisions; the three are zero when no report is visible
C29_StatsMatchHistory ==
  StatsAnswered =>
    LET stats == call[1].promise
        history == getVideoHistory(TRUE, call[1].sess, storedAnalyses, rows, None, NoReply)
    IN  /\ stats[1] = "resolved"
        /\ history[1] = "resolved"
        /\ stats[2].totalAnalyses = Len(history[2])
        /\ stats[2].totalAnalyses = stats[2].outDecisions + stats[2].notOutDecisions
        /\ stats[2].outDecisions >= 0
        /\ stats[2].notOutDecisions >= 0
        \* the same call with the log emptied, by a caller who sees no row
        /\ getDashboardStats(TRUE, None, <<>>, rows, None, NoReply) = Resolved(StatsOf(<<>>))
        /\ getVideoHistory(TRUE, None, <<>>, rows, None, NoReply) = Resolved(<<>>)
        /\ StatsOf(<<>>) = [totalAnalyses |-> 0, outDecisions |-> 0, notOutDecisions |-> 0]

\* the answer came from the table, which holds fewer reports than the log
C29_Witness ==
  /\ StatsAnswered
  /\ call[1].sess # None
  /\ call[1].promise[2].totalAnalyses = Len(Visible(rows, call[1].sess))
  /\ call[1].promise[2].totalAnalyses > 0
  /\ call[1].promise[2].totalAnalyses < Len(storedAnalyses)
====
